---- MODULE Spec2Model ----
(***************************************************************************)
(* A model of the MiMA simulator core (rusty-mimasim): the word /          *)
(* instruction codec, the arithmetic, memory and control units and the     *)
(* microcycle engine that drives them.                                     *)
(*                                                                         *)
(* A machine word is a u32.  TLC's integers are 32 bit signed, so a word   *)
(* is kept as the record [hi, lo] of its upper nibble (bits 31..28) and    *)
(* its lower 28 bits: value = hi * 2^28 + lo.  All arithmetic below is     *)
(* exact 32 bit arithmetic on that representation.                         *)
(***************************************************************************)
EXTENDS Integers, Sequences, FiniteSets, TLC

(***************************************************************************)
(* Bounds of the model.                                                    *)
(***************************************************************************)
\* perform_microcycle is called at most MaxCalls times in a behaviour.
MaxCalls == 48
\* The memory image loaded before the run sets the words 0 .. CodeLen-1.
CodeLen == 2

(***************************************************************************)
(* types/mod.rs: words, flags, the address space.                          *)
(***************************************************************************)
WORD_BITS == 32
ADDRESS_SPACE_BITS == 28
NIBBLE_BITS == WORD_BITS - ADDRESS_SPACE_BITS
ADDRESS_SPACE_WORDS == 2^ADDRESS_SPACE_BITS
DEVICE_IO_ADDRESS_SPACE_WORDS == ADDRESS_SPACE_WORDS \div 4
LINEAR_ADDRESS_SPACE_WORDS == 3 * DEVICE_IO_ADDRESS_SPACE_WORDS

LoMod == ADDRESS_SPACE_WORDS
HiMod == 2^NIBBLE_BITS

\* Word(u32) with value hi * 2^28 + lo.
W(hi, lo) == [hi |-> hi, lo |-> lo]
\* Word(n) for a literal n < 2^28.
Word(n) == W(0, n)

\* #[derive(PartialOrd)] on Word(u32): the order of the u32 values.
WordLess(a, b) == a.hi < b.hi \/ (a.hi = b.hi /\ a.lo < b.lo)

\* Range<Word>::contains: start <= w < end.
RangeContains(start, end, w) == ~WordLess(w, start) /\ WordLess(w, end)

\* Bit i (0 = least significant) of a word.
WordBit(w, i) ==
    IF i < ADDRESS_SPACE_BITS
    THEN (w.lo \div 2^i) % 2
    ELSE (w.hi \div 2^(i - ADDRESS_SPACE_BITS)) % 2

RECURSIVE BitsValue(_, _, _)
\* The number whose bit k is b[from + k], for k in 0 .. n-1.
BitsValue(b, from, n) ==
    IF n = 0 THEN 0 ELSE b[from] + 2 * BitsValue(b, from + 1, n - 1)

\* The word whose bit i is b[i], i in 0..31.
WordFromBits(b) ==
    W(BitsValue(b, ADDRESS_SPACE_BITS, NIBBLE_BITS), BitsValue(b, 0, ADDRESS_SPACE_BITS))

WordBits == 0..(WORD_BITS - 1)

\* u32 operators: &, |, ^, !, wrapping +, >> and << by less than 32.
WordAnd(a, b) == WordFromBits([i \in WordBits |-> WordBit(a, i) * WordBit(b, i)])
WordOr(a, b) == WordFromBits([i \in WordBits |->
                    IF WordBit(a, i) + WordBit(b, i) > 0 THEN 1 ELSE 0])
WordXor(a, b) == WordFromBits([i \in WordBits |-> (WordBit(a, i) + WordBit(b, i)) % 2])
WordNot(a) == WordFromBits([i \in WordBits |-> 1 - WordBit(a, i)])
WordWrappingAdd(a, b) ==
    LET s == a.lo + b.lo
    IN  W((a.hi + b.hi + (s \div LoMod)) % HiMod, s % LoMod)
WordShr(a, r) == WordFromBits([i \in WordBits |->
                    IF i + r \in WordBits THEN WordBit(a, i + r) ELSE 0])
WordShl(a, r) == WordFromBits([i \in WordBits |->
                    IF i - r \in WordBits THEN WordBit(a, i - r) ELSE 0])

\* Option<T>: None, or Some(v).
None == << >>
Some(v) == << v >>
Unwrap(o) == o[1]

(***************************************************************************)
(* types/mod.rs: the registers and the instruction codec.                  *)
(***************************************************************************)
\* Registers::ALL_REGISTERS, in the order of the array.
ALL_REGISTERS == <<"ACC", "ONE", "X", "Y", "Z", "IR", "IAR", "SAR", "SIR">>
Registers == {ALL_REGISTERS[i] : i \in DOMAIN ALL_REGISTERS}

\* enum Instruction: <<tag, payload>> for the variants that carry a word,
\* <<tag>> for Halt, Not and NoOperation.
BasicTags == <<"Add", "And", "Or", "Xor", "LoadValue", "StoreValue",
               "LoadConstant", "Jump", "JumpIfNegative", "Equals">>

\* A faulty decoder: the sub-opcodes of HLT and NOT are exchanged.
instruction_from_word_swapped(word) ==
    LET opcode == word.hi
    IN  IF opcode # 15
        THEN LET payload == W(0, word.lo)
             IN  IF opcode <= 9 THEN <<BasicTags[opcode + 1], payload>>
                 ELSE <<"NoOperation">>
        ELSE LET payload == W(0, word.lo % 2^24)
                 sub == word.lo \div 2^24
             IN  CASE sub = 0 -> <<"Not">>
                   [] sub = 1 -> <<"Halt">>
                   [] sub = 2 -> <<"RotateRight", payload>>
                   [] OTHER   -> <<"NoOperation">>

\* As instruction_from_word, but the basic payload is cut to 24 bits too.
instruction_from_word_narrow_payload(word) ==
    LET opcode == word.hi
        payload == W(0, word.lo % 2^24)
        sub == word.lo \div 2^24
    IN  IF opcode # 15
        THEN IF opcode <= 9 THEN <<BasicTags[opcode + 1], payload>>
             ELSE <<"NoOperation">>
        ELSE CASE sub = 0 -> <<"Halt">>
               [] sub = 1 -> <<"Not">>
               [] sub = 2 -> <<"RotateRight", payload>>
               [] OTHER   -> <<"NoOperation">>

\* As instruction_from_word, but only the sub-opcode 0xF is taken for NOP;
\* the other unknown sub-opcodes fall to HLT.
instruction_from_word_unknown_halts(word) ==
    LET opcode == word.hi
    IN  IF opcode # 15
        THEN LET payload == W(0, word.lo)
             IN  IF opcode <= 9 THEN <<BasicTags[opcode + 1], payload>>
                 ELSE <<"NoOperation">>
        ELSE LET payload == W(0, word.lo % 2^24)
                 sub == word.lo \div 2^24
             IN  CASE sub = 1  -> <<"Not">>
                   [] sub = 2  -> <<"RotateRight", payload>>
                   [] sub = 15 -> <<"NoOperation">>
                   [] OTHER    -> <<"Halt">>

\* impl From<Word> for Instruction
instruction_from_word(word) ==
    LET opcode == word.hi
    IN  IF opcode # 15
        THEN LET payload == W(0, word.lo)
             IN  IF opcode <= 9 THEN <<BasicTags[opcode + 1], payload>>
                 ELSE <<"NoOperation">>
        ELSE LET payload == W(0, word.lo % 2^24)
                 sub == word.lo \div 2^24
             IN  CASE sub = 0 -> <<"Halt">>
                   [] sub = 1 -> <<"Not">>
                   [] sub = 2 -> <<"RotateRight", payload>>
                   [] OTHER   -> <<"NoOperation">>

\* Instruction::Halt.into(): 0xF0000000.
HaltWord == W(15, 0)

(***************************************************************************)
(* bus/mod.rs: bus transfers.                                              *)
(***************************************************************************)
SOURCE_BITMASK_FULL == W(15, LoMod - 1)
SOURCE_BITMASK_BASIC_PAYLOAD == W(0, LoMod - 1)
SOURCE_BITMASK_EXTENDED_PAYLOAD == W(0, 2^24 - 1)

\* Xfer::validate_source_bitmask
validate_source_bitmask(source, source_bitmask) ==
    IF source = {"IR"}
    THEN source_bitmask = SOURCE_BITMASK_BASIC_PAYLOAD
         \/ source_bitmask = SOURCE_BITMASK_EXTENDED_PAYLOAD
    ELSE source_bitmask = SOURCE_BITMASK_FULL

valid_source_regs == {"ACC", "ONE", "Z", "IAR", "IR", "SIR"}
valid_destination_regs == {"ACC", "X", "Y", "IAR", "IR", "SAR", "SIR"}

\* The assertions of Xfer::new, in order: "none" when all pass, else the
\* message of the first one that fails.
xfer_new_panic(source, destinations, source_bitmask) ==
    IF Cardinality(source \cap Registers) # 1
    THEN "Bus source registers must contain exactly one register."
    ELSE IF destinations = {} THEN "Bus destination registers must not be empty."
    ELSE IF ~(source \subseteq valid_source_regs) THEN "Invalid bus source registers"
    ELSE IF ~(destinations \subseteq valid_destination_regs)
    THEN "Invalid bus destination registers"
    ELSE IF ~validate_source_bitmask(source, source_bitmask) THEN "Invalid source bitmask"
    ELSE "none"

\* Xfer::new (the value built when the assertions pass).
xfer_new(source, destinations, source_bitmask) ==
    [source |-> source, destinations |-> destinations,
     source_bitmask |-> source_bitmask, is_acc_dependent |-> FALSE]

(***************************************************************************)
(* microcycle/descriptor.rs: the descriptor and its builder.  The field    *)
(* panic is "none" unless building the descriptor aborted.                 *)
(***************************************************************************)
empty_desc ==
    [bus_xfer |-> None, alu_op |-> None, mem_access |-> None, panic |-> "none"]

with_masked_bus_xfer(d, source, destinations, source_bitmask) ==
    LET p == xfer_new_panic(source, destinations, source_bitmask)
    IN  IF d.panic # "none" THEN d
        ELSE IF p # "none" THEN [d EXCEPT !.panic = p]
        ELSE [d EXCEPT !.bus_xfer = Some(xfer_new(source, destinations, source_bitmask))]

with_bus_xfer(d, source, destinations) ==
    with_masked_bus_xfer(d, source, destinations, SOURCE_BITMASK_FULL)

acc_dependent(d) ==
    IF d.panic # "none" THEN d
    ELSE IF d.bus_xfer = None THEN [d EXCEPT !.panic = "Create bus transfer first!"]
    ELSE [d EXCEPT !.bus_xfer = Some([Unwrap(@) EXCEPT !.is_acc_dependent = TRUE])]

with_alu_op(d, alu_op) == [d EXCEPT !.alu_op = Some(alu_op)]

with_mem_access(d, mem_access) == [d EXCEPT !.mem_access = Some(mem_access)]

(***************************************************************************)
(* microcycle/fetch.rs and microcycle/execute.rs: the descriptor tables.   *)
(***************************************************************************)
\* A faulty fetch table: Z -> IAR one microcycle early, before the ALU has
\* delivered IAR + 1.
fetch_descriptor_early_iar(microcycle) ==
    CASE microcycle = 1 ->
            with_mem_access(with_bus_xfer(empty_desc, {"IAR"}, {"SAR", "X"}), "Read")
      [] microcycle = 2 ->
            with_alu_op(with_bus_xfer(empty_desc, {"ONE"}, {"Y"}), "Add")
      [] microcycle = 3 -> with_bus_xfer(empty_desc, {"Z"}, {"IAR"})
      [] microcycle = 5 -> with_bus_xfer(empty_desc, {"SIR"}, {"IR"})
      [] OTHER -> empty_desc

\* fetch::descriptor.  (Its debug_assert, microcycle in 1..5, and that of
\* execute::descriptor, microcycle in 6..12, hold whenever the instruction is
\* None exactly in 1..5: property C2.)
fetch_descriptor(microcycle) ==
    CASE microcycle = 1 ->
            with_mem_access(with_bus_xfer(empty_desc, {"IAR"}, {"SAR", "X"}), "Read")
      [] microcycle = 2 ->
            with_alu_op(with_bus_xfer(empty_desc, {"ONE"}, {"Y"}), "Add")
      [] microcycle = 4 -> with_bus_xfer(empty_desc, {"Z"}, {"IAR"})
      [] microcycle = 5 -> with_bus_xfer(empty_desc, {"SIR"}, {"IR"})
      [] OTHER -> empty_desc

\* A faulty table: the ALU is signalled one microcycle late, so Z is not
\* ready when microcycle 12 copies it to ACC.
descriptor_binary_late_alu(microcycle, alu_op) ==
    CASE microcycle = 6 ->
            with_mem_access(with_masked_bus_xfer(empty_desc, {"IR"}, {"SAR"},
                                SOURCE_BITMASK_BASIC_PAYLOAD), "Read")
      [] microcycle = 7 -> with_bus_xfer(empty_desc, {"ACC"}, {"X"})
      [] microcycle = 11 ->
            with_alu_op(with_bus_xfer(empty_desc, {"SIR"}, {"Y"}), alu_op)
      [] microcycle = 12 -> with_bus_xfer(empty_desc, {"Z"}, {"ACC"})
      [] OTHER -> empty_desc

\* The shape shared by descriptor_add, _and, _or, _xor and _equals.
descriptor_binary(microcycle, alu_op) ==
    CASE microcycle = 6 ->
            with_mem_access(with_masked_bus_xfer(empty_desc, {"IR"}, {"SAR"},
                                SOURCE_BITMASK_BASIC_PAYLOAD), "Read")
      [] microcycle = 7 -> with_bus_xfer(empty_desc, {"ACC"}, {"X"})
      [] microcycle = 10 ->
            with_alu_op(with_bus_xfer(empty_desc, {"SIR"}, {"Y"}), alu_op)
      [] microcycle = 12 -> with_bus_xfer(empty_desc, {"Z"}, {"ACC"})
      [] OTHER -> empty_desc

descriptor_add(microcycle) == descriptor_binary(microcycle, "Add")
descriptor_and(microcycle) == descriptor_binary(microcycle, "And")
descriptor_or(microcycle) == descriptor_binary(microcycle, "Or")
descriptor_xor(microcycle) == descriptor_binary(microcycle, "Xor")
descriptor_equals(microcycle) == descriptor_binary(microcycle, "Equals")

descriptor_load_value(microcycle) ==
    CASE microcycle = 6 ->
            with_mem_access(with_masked_bus_xfer(empty_desc, {"IR"}, {"SAR"},
                                SOURCE_BITMASK_BASIC_PAYLOAD), "Read")
      [] microcycle = 10 -> with_bus_xfer(empty_desc, {"SIR"}, {"ACC"})
      [] OTHER -> empty_desc

\* A faulty table: the write is signalled too late to be committed within
\* the cycle.
descriptor_store_value_late(microcycle) ==
    CASE microcycle = 6 ->
            with_masked_bus_xfer(empty_desc, {"IR"}, {"SAR"}, SOURCE_BITMASK_BASIC_PAYLOAD)
      [] microcycle = 9 ->
            with_mem_access(with_bus_xfer(empty_desc, {"ACC"}, {"SIR"}), "Write")
      [] OTHER -> empty_desc

descriptor_store_value(microcycle) ==
    CASE microcycle = 6 ->
            with_masked_bus_xfer(empty_desc, {"IR"}, {"SAR"}, SOURCE_BITMASK_BASIC_PAYLOAD)
      [] microcycle = 7 ->
            with_mem_access(with_bus_xfer(empty_desc, {"ACC"}, {"SIR"}), "Write")
      [] OTHER -> empty_desc

\* A faulty table: IR reaches ACC with its opcode bits.
descriptor_load_constant_unmasked(microcycle) ==
    CASE microcycle = 6 -> with_bus_xfer(empty_desc, {"IR"}, {"ACC"})
      [] OTHER -> empty_desc

descriptor_load_constant(microcycle) ==
    CASE microcycle = 6 ->
            with_masked_bus_xfer(empty_desc, {"IR"}, {"ACC"}, SOURCE_BITMASK_BASIC_PAYLOAD)
      [] OTHER -> empty_desc

\* A faulty table: the jump writes its address into IR as well.
descriptor_jump_writes_ir(microcycle) ==
    CASE microcycle = 6 ->
            with_masked_bus_xfer(empty_desc, {"IR"}, {"IAR", "IR"},
                                 SOURCE_BITMASK_BASIC_PAYLOAD)
      [] OTHER -> empty_desc

descriptor_jump(microcycle) ==
    CASE microcycle = 6 ->
            with_masked_bus_xfer(empty_desc, {"IR"}, {"IAR"}, SOURCE_BITMASK_BASIC_PAYLOAD)
      [] OTHER -> empty_desc

descriptor_jump_if_negative(microcycle) ==
    CASE microcycle = 6 ->
            acc_dependent(with_masked_bus_xfer(empty_desc, {"IR"}, {"IAR"},
                              SOURCE_BITMASK_BASIC_PAYLOAD))
      [] OTHER -> empty_desc

descriptor_halt(microcycle) == empty_desc

descriptor_not(microcycle) ==
    CASE microcycle = 6 -> with_alu_op(with_bus_xfer(empty_desc, {"ACC"}, {"X"}), "Not")
      [] microcycle = 8 -> with_bus_xfer(empty_desc, {"Z"}, {"ACC"})
      [] OTHER -> empty_desc

\* As descriptor_rotate_right, but IR is put on the bus unmasked.
descriptor_rotate_right_full_mask(microcycle) ==
    CASE microcycle = 6 -> with_bus_xfer(empty_desc, {"ACC"}, {"X"})
      [] microcycle = 7 ->
            with_alu_op(with_bus_xfer(empty_desc, {"IR"}, {"Y"}), "RotateRight")
      [] microcycle = 9 -> with_bus_xfer(empty_desc, {"Z"}, {"ACC"})
      [] OTHER -> empty_desc

descriptor_rotate_right(microcycle) ==
    CASE microcycle = 6 -> with_bus_xfer(empty_desc, {"ACC"}, {"X"})
      [] microcycle = 7 ->
            with_alu_op(with_masked_bus_xfer(empty_desc, {"IR"}, {"Y"},
                            SOURCE_BITMASK_EXTENDED_PAYLOAD), "RotateRight")
      [] microcycle = 9 -> with_bus_xfer(empty_desc, {"Z"}, {"ACC"})
      [] OTHER -> empty_desc

descriptor_no_operation(microcycle) == empty_desc

\* execute::descriptor: only the variant of the instruction is used.
execute_descriptor(microcycle, instruction) ==
    LET tag == instruction[1]
    IN  CASE tag = "Add"            -> descriptor_add(microcycle)
          [] tag = "And"            -> descriptor_and(microcycle)
          [] tag = "Or"             -> descriptor_or(microcycle)
          [] tag = "Xor"            -> descriptor_xor(microcycle)
          [] tag = "LoadValue"      -> descriptor_load_value(microcycle)
          [] tag = "StoreValue"     -> descriptor_store_value(microcycle)
          [] tag = "LoadConstant"   -> descriptor_load_constant(microcycle)
          [] tag = "Jump"           -> descriptor_jump(microcycle)
          [] tag = "JumpIfNegative" -> descriptor_jump_if_negative(microcycle)
          [] tag = "Equals"         -> descriptor_equals(microcycle)
          [] tag = "Halt"           -> descriptor_halt(microcycle)
          [] tag = "Not"            -> descriptor_not(microcycle)
          [] tag = "RotateRight"    -> descriptor_rotate_right(microcycle)
          [] tag = "NoOperation"    -> descriptor_no_operation(microcycle)

(***************************************************************************)
(* The machine.  A value m of the struct Mima is the record of its three   *)
(* units; m.panic is "none" until an assertion, expect or panic! of the    *)
(* code aborts the call, and then names it.  Every operator below that     *)
(* takes a machine leaves an aborted machine as it is.                     *)
(***************************************************************************)
Panic(m, message) == [m EXCEPT !.panic = message]

(***************************************************************************)
(* unit/arithmetic.rs                                                      *)
(***************************************************************************)
\* An ALU that takes one microcycle more than the descriptor tables allow.
SLOW_MICROCYCLES_PER_OP == 1 + 1

MICROCYCLES_PER_OP == 1

\* arithmetic::Unit::new
arithmetic_unit_new ==
    [acc |-> Word(0), one |-> Word(1), x |-> Word(0), y |-> Word(0), z |-> Word(0),
     work |-> None]

\* The value arithmetic::Unit::finalize_work stores into Z.
alu_result(op, x, y) ==
    CASE op = "Add"    -> WordWrappingAdd(x, y)
      [] op = "And"    -> WordAnd(x, y)
      [] op = "Or"     -> WordOr(x, y)
      [] op = "Xor"    -> WordXor(x, y)
      [] op = "Equals" -> IF x = y THEN W(15, LoMod - 1) ELSE Word(0)
      [] op = "Not"    -> WordNot(x)
      [] op = "RotateRight" ->
            LET rot == y.lo % WORD_BITS
            IN  WordOr(WordShr(x, rot), WordShl(x, rot))

\* As arithmetic_finalize_work, but the result is stored into ONE.
arithmetic_finalize_work_into_one(au, work) ==
    [au EXCEPT !.one = alu_result(work.op, work.x, work.y)]

\* arithmetic::Unit::finalize_work
arithmetic_finalize_work(au, work) ==
    [au EXCEPT !.z = alu_result(work.op, work.x, work.y)]

\* arithmetic::Unit::poll_work
arithmetic_poll_work(au) ==
    IF au.work = None THEN au
    ELSE LET work == Unwrap(au.work)
         IN  IF work.remaining_cycles > 0
             THEN [au EXCEPT !.work =
                        Some([work EXCEPT !.remaining_cycles = @ - 1])]
             ELSE arithmetic_finalize_work([au EXCEPT !.work = None], work)

\* arithmetic::Unit::signal_alu, on the machine because its assertion can abort.
signal_alu(m, op) ==
    IF m.panic # "none" THEN m
    ELSE IF m.arithmetic_unit.work # None
    THEN Panic(m, "ALU operation is already in progress.")
    ELSE [m EXCEPT !.arithmetic_unit.work =
              Some([op |-> op, x |-> m.arithmetic_unit.x, y |-> m.arithmetic_unit.y,
                    remaining_cycles |-> MICROCYCLES_PER_OP])]

(***************************************************************************)
(* unit/memory.rs                                                          *)
(***************************************************************************)
\* A memory too slow for the descriptor tables: the fetch's read would still
\* be pending when microcycle 6 signals the next access.
SLOW_MICROCYCLES_PER_ACCESS == 3 + 2

\* const MICROCYCLES_PER_ACCESS
MICROCYCLES_PER_ACCESS == 3

ADDRESS_SPACE_RANGE == <<Word(0), W(1, 0)>>
LINEAR_ADDRESS_SPACE_RANGE == <<Word(0), Word(LINEAR_ADDRESS_SPACE_WORDS)>>
DEVICE_IO_ADDRESS_SPACE_RANGE == <<Word(LINEAR_ADDRESS_SPACE_WORDS), W(1, 0)>>

\* memory::Type::from_address: "Linear", "DeviceIO", or "panic" when the
\* address is in neither range.
from_address(address) ==
    IF RangeContains(LINEAR_ADDRESS_SPACE_RANGE[1], LINEAR_ADDRESS_SPACE_RANGE[2], address)
    THEN "Linear"
    ELSE IF RangeContains(DEVICE_IO_ADDRESS_SPACE_RANGE[1],
                          DEVICE_IO_ADDRESS_SPACE_RANGE[2], address)
    THEN "DeviceIO"
    ELSE "panic"

\* The linear memory is vec![Halt; LINEAR_ADDRESS_SPACE_WORDS] with some
\* words overwritten: a function from the overwritten addresses, every
\* other address holding HaltWord.
mem_get_zero_filled(linear_memory, index) ==
    IF index \in DOMAIN linear_memory THEN linear_memory[index] ELSE Word(0)

mem_get(linear_memory, index) ==
    IF index \in DOMAIN linear_memory THEN linear_memory[index] ELSE HaltWord

mem_set(linear_memory, index, word) ==
    [i \in (DOMAIN linear_memory) \cup {index} |->
        IF i = index THEN word ELSE linear_memory[i]]

\* memory::Unit::new
memory_unit_new ==
    [sar |-> Word(0), sir |-> Word(0), work |-> None,
     linear_memory |-> [i \in {} |-> HaltWord]]

\* As load_raw_code, but the memory behind the image is reset.
load_raw_code_fresh_memory(mu, raw_code) ==
    [mu EXCEPT !.linear_memory = [i \in {k - 1 : k \in DOMAIN raw_code} |-> raw_code[i + 1]]]

\* memory::Unit::load_raw_code: raw_code is a sequence of words.
load_raw_code(mu, raw_code) ==
    [mu EXCEPT !.linear_memory =
        [i \in (DOMAIN @) \cup {k - 1 : k \in DOMAIN raw_code} |->
            IF i < Len(raw_code) THEN raw_code[i + 1] ELSE @[i]]]

\* A faulty write that lands one word behind the address.
finalize_work_linear_off_by_one(mu, work) ==
    IF work.access = "Read"
    THEN [mu EXCEPT !.sir = mem_get(mu.linear_memory, work.sar.lo)]
    ELSE [mu EXCEPT !.linear_memory = mem_set(@, work.sar.lo + 1, work.sir)]

\* memory::Unit::finalize_work_linear
finalize_work_linear(mu, work) ==
    IF work.access = "Read"
    THEN [mu EXCEPT !.sir = mem_get(mu.linear_memory, work.sar.lo)]
    ELSE [mu EXCEPT !.linear_memory = mem_set(@, work.sar.lo, work.sir)]

\* A faulty device stub that treats the address as one of the linear memory.
finalize_work_device_io_as_linear(mu, work) == finalize_work_linear(mu, work)

\* memory::Unit::finalize_work_device_io
finalize_work_device_io(mu, work) ==
    IF work.access = "Read" THEN [mu EXCEPT !.sir = Word(42)] ELSE mu

\* A faulty poll_work that finalizes the access one poll early.
memory_poll_work_early(mu) ==
    IF mu.work = None THEN mu
    ELSE LET work == Unwrap(mu.work)
         IN  IF work.remaining_cycles <= 1
             THEN IF work.mem_type = "Linear"
                  THEN finalize_work_linear([mu EXCEPT !.work = None], work)
                  ELSE finalize_work_device_io([mu EXCEPT !.work = None], work)
             ELSE [mu EXCEPT !.work =
                        Some([work EXCEPT !.remaining_cycles = @ - 1])]

\* memory::Unit::poll_work
memory_poll_work(mu) ==
    IF mu.work = None THEN mu
    ELSE LET work == Unwrap(mu.work)
         IN  IF work.remaining_cycles = 0
             THEN IF work.mem_type = "Linear"
                  THEN finalize_work_linear([mu EXCEPT !.work = None], work)
                  ELSE finalize_work_device_io([mu EXCEPT !.work = None], work)
             ELSE [mu EXCEPT !.work =
                        Some([work EXCEPT !.remaining_cycles = @ - 1])]

\* memory::Unit::signal_memory
signal_memory(m, access) ==
    IF m.panic # "none" THEN m
    ELSE IF m.memory_unit.work # None
    THEN Panic(m, "Memory access is already in progress.")
    ELSE IF from_address(m.memory_unit.sar) = "panic"
    THEN Panic(m, "not a valid address")
    ELSE [m EXCEPT !.memory_unit.work =
              Some([mem_type |-> from_address(m.memory_unit.sar), access |-> access,
                    sar |-> m.memory_unit.sar, sir |-> m.memory_unit.sir,
                    remaining_cycles |-> MICROCYCLES_PER_ACCESS])]

(***************************************************************************)
(* unit/control.rs                                                         *)
(***************************************************************************)
\* Status::new
status_new == [run |-> TRUE, tra |-> FALSE]

\* control::Unit::new
control_unit_new ==
    [iar |-> Word(0), ir |-> Word(0), status |-> status_new, microcycle |-> 1,
     instruction |-> None]

\* A faulty is_running that reads the wrong flag.
is_running_checks_tra(cu) == ~cu.status.tra

\* control::Unit::is_running
is_running(cu) == cu.status.run

\* A faulty counter without the reset at 12.
microcycle_after_never_wraps(microcycle) == microcycle + 1

\* end_microcycle, "Set the counter for the next microcycle".
microcycle_after(microcycle) == IF microcycle = 12 THEN 1 ELSE microcycle + 1

\* A faulty match without the drop of the instruction at 12.
instruction_after_keeps(cu) ==
    IF cu.microcycle = 5 THEN Some(instruction_from_word(cu.ir)) ELSE cu.instruction

\* end_microcycle, the match: the instruction it leaves in the unit (at 12
\* the expect has succeeded).
instruction_after(cu) ==
    IF cu.microcycle = 5 THEN Some(instruction_from_word(cu.ir))
    ELSE IF cu.microcycle = 12 THEN None
    ELSE cu.instruction

\* A faulty HLT check that is not confined to microcycle 12.
run_after_any_microcycle(cu) ==
    IF cu.instruction = Some(<<"Halt">>) THEN FALSE ELSE cu.status.run

\* end_microcycle, the arm for 12: the RUN flag it leaves.
run_after(cu) ==
    IF cu.microcycle = 12 /\ cu.instruction = Some(<<"Halt">>) THEN FALSE
    ELSE cu.status.run

\* control::Unit::end_microcycle
end_microcycle(m) ==
    IF m.panic # "none" THEN m
    ELSE IF m.control_unit.microcycle = 12 /\ m.control_unit.instruction = None
    THEN Panic(m, "Instruction must be present in execution phase!")
    ELSE [m EXCEPT !.control_unit.status.run = run_after(m.control_unit),
                   !.control_unit.instruction = instruction_after(m.control_unit),
                   !.control_unit.microcycle = microcycle_after(@)]

\* control::Unit::start_xfer
start_xfer(m) ==
    IF m.panic # "none" THEN m
    ELSE IF m.control_unit.status.tra THEN Panic(m, "A transfer is already in progress.")
    ELSE [m EXCEPT !.control_unit.status.tra = TRUE]

\* A faulty stop_xfer that leaves TRA set.
stop_xfer_keeps_tra(m) ==
    IF m.panic # "none" THEN m
    ELSE IF ~m.control_unit.status.tra THEN Panic(m, "No transfer is in progress.")
    ELSE m

\* control::Unit::stop_xfer
stop_xfer(m) ==
    IF m.panic # "none" THEN m
    ELSE IF ~m.control_unit.status.tra THEN Panic(m, "No transfer is in progress.")
    ELSE [m EXCEPT !.control_unit.status.tra = FALSE]

(***************************************************************************)
(* mima/mod.rs                                                             *)
(***************************************************************************)
\* Mima::new
mima_new ==
    [arithmetic_unit |-> arithmetic_unit_new, control_unit |-> control_unit_new,
     memory_unit |-> memory_unit_new, panic |-> "none"]

\* The first match of perform_bus_xfer: the register the bus reads.
bus_source_value(m, source) ==
    CASE source = {"ACC"} -> m.arithmetic_unit.acc
      [] source = {"ONE"} -> m.arithmetic_unit.one
      [] source = {"Z"}   -> m.arithmetic_unit.z
      [] source = {"IAR"} -> m.control_unit.iar
      [] source = {"IR"}  -> m.control_unit.ir
      [] source = {"SIR"} -> m.memory_unit.sir

\* The second match of perform_bus_xfer: one destination written.
bus_write(m, dest, value) ==
    IF m.panic # "none" THEN m ELSE
    CASE dest = "ACC" -> [m EXCEPT !.arithmetic_unit.acc = value]
      [] dest = "X"   -> [m EXCEPT !.arithmetic_unit.x = value]
      [] dest = "Y"   -> [m EXCEPT !.arithmetic_unit.y = value]
      [] dest = "IAR" -> [m EXCEPT !.control_unit.iar = value]
      [] dest = "IR"  -> [m EXCEPT !.control_unit.ir = value]
      [] dest = "SAR" -> [m EXCEPT !.memory_unit.sar = value]
      [] dest = "SIR" -> [m EXCEPT !.memory_unit.sir = value]
      [] OTHER        -> Panic(m, "Unexpected bus destination")

RECURSIVE bus_write_all(_, _, _, _)
\* The loop of perform_bus_xfer over ALL_REGISTERS from index i on.
bus_write_all(m, destinations, value, i) ==
    IF i > Len(ALL_REGISTERS) THEN m
    ELSE bus_write_all(IF ALL_REGISTERS[i] \in destinations
                       THEN bus_write(m, ALL_REGISTERS[i], value) ELSE m,
                       destinations, value, i + 1)

\* A faulty check that carries out every transfer, whatever ACC holds.
bus_xfer_taken_always(m, bus_xfer) == TRUE

\* Is the transfer carried out (not a cancelled accumulator-dependent one)?
bus_xfer_taken(m, bus_xfer) ==
    ~(bus_xfer.is_acc_dependent /\ WordBit(m.arithmetic_unit.acc, 31) = 0)

\* As perform_bus_xfer, but the source goes onto the bus unmasked.
perform_bus_xfer_unmasked(m, bus_xfer) ==
    IF m.panic # "none" THEN m
    ELSE IF ~bus_xfer_taken(m, bus_xfer) THEN m
    ELSE IF bus_xfer.source \notin {{"ACC"}, {"ONE"}, {"Z"}, {"IAR"}, {"IR"}, {"SIR"}}
    THEN Panic(m, "Unexpected bus source")
    ELSE bus_write_all(m, bus_xfer.destinations,
                       bus_source_value(m, bus_xfer.source), 1)

\* Mima::perform_bus_xfer
perform_bus_xfer(m, bus_xfer) ==
    IF m.panic # "none" THEN m
    ELSE IF ~bus_xfer_taken(m, bus_xfer) THEN m
    ELSE IF bus_xfer.source \notin {{"ACC"}, {"ONE"}, {"Z"}, {"IAR"}, {"IR"}, {"SIR"}}
    THEN Panic(m, "Unexpected bus source")
    ELSE bus_write_all(m, bus_xfer.destinations,
                       WordAnd(bus_xfer.source_bitmask,
                               bus_source_value(m, bus_xfer.source)), 1)

\* Mima::perform_alu_signal
perform_alu_signal(m, alu_op) == signal_alu(m, alu_op)

\* Mima::perform_mem_signal
perform_mem_signal(m, mem_access) ==
    LET type == from_address(m.memory_unit.sar)
        is_xfer == type = "DeviceIO"
        started == IF is_xfer THEN start_xfer(m) ELSE m
        signalled == signal_memory(started, mem_access)
    IN  IF m.panic # "none" THEN m
        ELSE IF type = "panic" THEN Panic(m, "not a valid address")
        ELSE IF is_xfer THEN stop_xfer(signalled) ELSE signalled

\* Mima::process_microcycle_descriptor
process_microcycle_descriptor(m, microcycle_desc) ==
    LET m1 == IF microcycle_desc.bus_xfer # None
              THEN perform_bus_xfer(m, Unwrap(microcycle_desc.bus_xfer)) ELSE m
        m2 == IF microcycle_desc.alu_op # None
              THEN perform_alu_signal(m1, Unwrap(microcycle_desc.alu_op)) ELSE m1
        m3 == IF microcycle_desc.mem_access # None
              THEN perform_mem_signal(m2, Unwrap(microcycle_desc.mem_access)) ELSE m2
    IN  m3

\* The descriptor perform_microcycle obtains for a running machine m, after
\* the two units have polled their work.
microcycle_descriptor(m) ==
    IF m.control_unit.instruction # None
    THEN execute_descriptor(m.control_unit.microcycle, Unwrap(m.control_unit.instruction))
    ELSE fetch_descriptor(m.control_unit.microcycle)

\* The machine as the units' poll_work calls leave it.
poll_units(m) ==
    [m EXCEPT !.arithmetic_unit = arithmetic_poll_work(@),
              !.memory_unit = memory_poll_work(@)]

\* Mima::perform_microcycle: the machine it leaves and the value it returns
\* (when the call aborts, machine.panic names the abort and nothing is
\* returned).
perform_microcycle(m) ==
    LET polled == poll_units(m)
        microcycle_desc == microcycle_descriptor(polled)
    IN  IF ~is_running(m.control_unit)
        THEN [machine |-> m, returned |-> None]
        ELSE IF microcycle_desc.panic # "none"
        THEN [machine |-> Panic(polled, microcycle_desc.panic), returned |-> None]
        ELSE [machine |-> end_microcycle(
                              process_microcycle_descriptor(polled, microcycle_desc)),
              returned |-> Some(microcycle_desc)]

(***************************************************************************)
(* The summary the command line records around one microcycle.             *)
(***************************************************************************)
\* Value::Stasis
Stasis(w) == <<"Stasis", w>>

\* Value::make_diff
make_diff(value, new) ==
    IF value[2] # new THEN <<"Change", value[2], new>> ELSE Stasis(value[2])

\* Value::initial_value
initial_value(value) == value[2]

\* MicrocycleSummary::record_microcycle: the machine it leaves and the
\* summary it returns (none when the machine is stopped, and none when the
\* call aborts).
record_microcycle(m) ==
    LET r == perform_microcycle(m)
        after == r.machine
    IN  [machine |-> after,
         summary |->
            IF r.returned = None \/ after.panic # "none" THEN None
            ELSE Some([acc |-> make_diff(Stasis(m.arithmetic_unit.acc),
                                         after.arithmetic_unit.acc),
                       x |-> make_diff(Stasis(m.arithmetic_unit.x),
                                       after.arithmetic_unit.x),
                       y |-> make_diff(Stasis(m.arithmetic_unit.y),
                                       after.arithmetic_unit.y),
                       z |-> make_diff(Stasis(m.arithmetic_unit.z),
                                       after.arithmetic_unit.z),
                       alu_work |-> m.arithmetic_unit.work,
                       iar |-> make_diff(Stasis(m.control_unit.iar),
                                         after.control_unit.iar),
                       ir |-> make_diff(Stasis(m.control_unit.ir),
                                        after.control_unit.ir),
                       run |-> make_diff(Stasis(m.control_unit.status.run),
                                         after.control_unit.status.run),
                       tra |-> make_diff(Stasis(m.control_unit.status.tra),
                                         after.control_unit.status.tra),
                       microcycle |-> m.control_unit.microcycle,
                       instruction |-> m.control_unit.instruction,
                       sar |-> make_diff(Stasis(m.memory_unit.sar),
                                         after.memory_unit.sar),
                       sir |-> make_diff(Stasis(m.memory_unit.sir),
                                         after.memory_unit.sir),
                       mem_work |-> m.memory_unit.work,
                       descriptor |-> Unwrap(r.returned)])]

\* As is_bus_active, but without the arm for accumulator-dependent transfers.
is_bus_active_any_xfer(summary) == summary.descriptor.bus_xfer # None

\* MicrocycleSummary::is_bus_active
is_bus_active(summary) ==
    IF summary.descriptor.bus_xfer = None THEN FALSE
    ELSE IF Unwrap(summary.descriptor.bus_xfer).is_acc_dependent
    THEN WordBit(initial_value(summary.acc), 31) # 0
    ELSE TRUE

(***************************************************************************)
(* The memory images the model loads (load_raw_code on a fresh machine).   *)
(***************************************************************************)
\* impl From<Instruction> for Word: do its two assertions on the payload hold?
word_from_instruction_fits(instruction) ==
    IF Len(instruction) = 1 THEN TRUE
    ELSE IF instruction[1] = "RotateRight"
    THEN ~WordLess(SOURCE_BITMASK_EXTENDED_PAYLOAD, instruction[2])
    ELSE ~WordLess(SOURCE_BITMASK_BASIC_PAYLOAD, instruction[2])

\* As word_from_instruction, but the extended format leaves out "opcode << 24".
word_from_instruction_no_sub_opcode(instruction) ==
    LET tag == instruction[1]
        basic == {i \in DOMAIN BasicTags : BasicTags[i] = tag}
    IN  IF basic # {}
        THEN W((CHOOSE i \in basic : TRUE) - 1, instruction[2].lo)
        ELSE IF tag = "RotateRight" THEN W(15, instruction[2].lo) ELSE W(15, 0)

\* impl From<Instruction> for Word: the word, when the assertions hold.
word_from_instruction(instruction) ==
    LET tag == instruction[1]
        basic == {i \in DOMAIN BasicTags : BasicTags[i] = tag}
    IN  IF basic # {}
        THEN W((CHOOSE i \in basic : TRUE) - 1, instruction[2].lo)
        ELSE CASE tag = "Halt"        -> W(15, 0)
               [] tag = "Not"         -> W(15, 1 * 2^24)
               [] tag = "RotateRight" -> W(15, 2 * 2^24 + instruction[2].lo)
               [] tag = "NoOperation" -> W(15, 15 * 2^24)

Ins(tag, n) == word_from_instruction(<<tag, Word(n)>>)

\* The generated images: CodeLen instruction words, the word HLT, one data
\* word.  DataAddr is the address of the data word.
DataAddr == CodeLen + 1
FirstDeviceAddr == LINEAR_ADDRESS_SPACE_WORDS
LastAddr == ADDRESS_SPACE_WORDS - 1

CodeWords ==
    {Ins(t, DataAddr) : t \in {"Add", "And", "Or", "Xor", "Equals", "LoadValue"}}
    \cup {Ins("LoadValue", FirstDeviceAddr), Ins("StoreValue", FirstDeviceAddr),
          Ins("LoadValue", LastAddr),
          Ins("StoreValue", CodeLen), Ins("LoadConstant", 3),
          Ins("Jump", 0), Ins("Jump", LastAddr),
          Ins("JumpIfNegative", 0), Ins("RotateRight", 1),
          word_from_instruction(<<"Halt">>), W(15, 5),
          word_from_instruction(<<"Not">>),
          word_from_instruction(<<"NoOperation">>)}

DataWords == {Word(3), W(15, LoMod - 1)}

GeneratedImages ==
    {code \o <<HaltWord, d>> : code \in [1..CodeLen -> CodeWords], d \in DataWords}

\* The programs the specification and the demo name, assembled by hand:
\*   LDC 3; ADD val; HLT; val: DAT 4
\*   LDC 1; JMN skip; LDC 0; skip: HLT
\*   LDC 1; NOT; RAR 1; HLT
ExampleImages ==
    { <<Ins("LoadConstant", 3), Ins("Add", 3), HaltWord, Word(4)>>,
      <<Ins("LoadConstant", 1), Ins("JumpIfNegative", 3), Ins("LoadConstant", 0),
        HaltWord>>,
      <<Ins("LoadConstant", 1), word_from_instruction(<<"Not">>),
        Ins("RotateRight", 1), HaltWord>> }

\* Programs with no HLT behind them, of one to three words, and one that
\* halts on its own.
TrapImages ==
    { <<Ins("LoadConstant", 3)>>,
      <<word_from_instruction(<<"Not">>)>>,
      <<Ins("LoadConstant", 3), Ins("Add", 0)>>,
      <<word_from_instruction(<<"NoOperation">>), Ins("RotateRight", 1)>>,
      <<Ins("LoadValue", FirstDeviceAddr), word_from_instruction(<<"Not">>),
        Ins("Equals", 2)>>,
      <<HaltWord, word_from_instruction(<<"Not">>)>> }

Images == GeneratedImages \cup ExampleImages \cup TrapImages

(***************************************************************************)
(* assembly/parser.rs.  A source text is the sequence of its lines; line   *)
(* number n (from 0) is source[n + 1].  A line is modelled from its        *)
(* lexemes on:                                                             *)
(*   [label_defs |-> a sequence of <<prefix, name>>, content |-> Option]   *)
(* with prefix None or Some(string), and the content one of                *)
(*   <<"Data", literal, None or Some(literal)>>                            *)
(*   <<"Instruction", tag>>                        HLT, NOT, NOP           *)
(*   <<"Instruction", tag, literal>>               LDC, RAR                *)
(*   <<"Instruction", tag, <<"Address", literal>>>>                        *)
(*   <<"Instruction", tag, <<"Label", prefix, name>>>>                     *)
(* A numeric literal is [sign |-> "", "+" or "-", num |-> the u32 its      *)
(* digits denote].                                                         *)
(***************************************************************************)
Lit(sign, num) == [sign |-> sign, num |-> num]

\* As word_token, but a negative number is complemented without the "+ 1".
word_token_ones_complement(literal) ==
    LET num == literal.num
        is_negative == literal.sign = "-" /\ WordLess(Word(0), num)
    IN  IF is_negative
        THEN IF ~WordLess(W(8, 0), num) THEN Some(WordNot(num)) ELSE None
        ELSE Some(num)

\* word_token: None when the closure returns Err(()), Some(word) otherwise.
word_token(literal) ==
    LET num == literal.num
        is_negative == literal.sign = "-" /\ WordLess(Word(0), num)
    IN  IF is_negative
        THEN IF ~WordLess(W(8, 0), num)
             THEN Some(WordWrappingAdd(WordNot(num), Word(1)))
             ELSE None
        ELSE Some(num)

WordArgTags == {"LoadConstant", "RotateRight"}

\* The literals of a line's content, each to be matched by word_token.
content_literals(content) ==
    IF content = None THEN {}
    ELSE LET c == Unwrap(content)
         IN  IF c[1] = "Data"
             THEN {c[2]} \cup (IF c[3] = None THEN {} ELSE {Unwrap(c[3])})
             ELSE IF Len(c) = 2 THEN {}
             ELSE IF c[2] \in WordArgTags THEN {c[3]}
             ELSE IF c[3][1] = "Address" THEN {c[3][2]}
             ELSE {}

\* data_token, instruction_token and address_token: the content token of a
\* line whose literals all match.
content_token(content) ==
    IF content = None THEN None
    ELSE LET c == Unwrap(content)
         IN  IF c[1] = "Data"
             THEN Some(<<"Data", Unwrap(word_token(c[2])),
                         IF c[3] = None THEN None
                         ELSE Some(Unwrap(word_token(Unwrap(c[3]))))>>)
             ELSE IF Len(c) = 2 THEN Some(c)
             ELSE IF c[2] \in WordArgTags
             THEN Some(<<"Instruction", c[2], Unwrap(word_token(c[3]))>>)
             ELSE IF c[3][1] = "Address"
             THEN Some(<<"Instruction", c[2],
                         <<"Address", Unwrap(word_token(c[3][2]))>>>>)
             ELSE Some(c)

\* statement_token: Err(ParserError), Ok(None) for an empty line, or
\* Ok(Some(StatementToken)).
statement_token(line_number, line) ==
    IF \E literal \in content_literals(line.content) : word_token(literal) = None
    THEN [kind |-> "Err", error |-> <<"ParserError", line_number>>]
    ELSE IF Len(line.label_defs) = 0 /\ line.content = None
    THEN [kind |-> "Ok", stmt |-> None]
    ELSE [kind |-> "Ok",
          stmt |-> Some([line_number |-> line_number, label_defs |-> line.label_defs,
                         content |-> content_token(line.content)])]

RECURSIVE parse_from_drops_failed_lines(_, _, _)
\* As parse_from, but a line that fails is left out of the program.
parse_from_drops_failed_lines(source, i, statements) ==
    IF i > Len(source) THEN [kind |-> "Ok", program |-> statements]
    ELSE LET r == statement_token(i - 1, source[i])
         IN  parse_from_drops_failed_lines(source, i + 1,
                 IF r.kind = "Err" \/ r.stmt = None THEN statements
                 ELSE Append(statements, Unwrap(r.stmt)))

RECURSIVE parse_from(_, _, _)
\* The collect() of ProgramToken::parse from line i on: it stops at the
\* first line that fails.
parse_from(source, i, statements) ==
    IF i > Len(source) THEN [kind |-> "Ok", program |-> statements]
    ELSE LET r == statement_token(i - 1, source[i])
         IN  IF r.kind = "Err" THEN r
             ELSE parse_from(source, i + 1,
                             IF r.stmt = None THEN statements
                             ELSE Append(statements, Unwrap(r.stmt)))

\* ProgramToken::parse
parse(source) == parse_from(source, 1, << >>)

\* DataToken::times, as far as it matters: the number of words it asks
\* for, or LINEAR_ADDRESS_SPACE_WORDS + 1 when it asks for more than that.
data_times(data) ==
    IF data[3] = None THEN 1
    ELSE LET w == Unwrap(data[3])
         IN  IF WordLess(Word(LINEAR_ADDRESS_SPACE_WORDS), w)
             THEN LINEAR_ADDRESS_SPACE_WORDS + 1
             ELSE w.lo

\* As required_words, but a DAT statement counts as one word whatever its
\* TIMES.
required_words_ignores_times(stmt) ==
    IF stmt.content = None THEN 0 ELSE 1

\* StatementToken::required_words
required_words(stmt) ==
    IF stmt.content = None THEN 0
    ELSE IF Unwrap(stmt.content)[1] = "Data" THEN data_times(Unwrap(stmt.content))
    ELSE 1

(***************************************************************************)
(* assembly/assembler.rs.  A Result is [kind |-> "Ok", ...] or             *)
(* [kind |-> "Err", error |-> ...]; an assembly that aborts on an          *)
(* assertion is [kind |-> "panic", message |-> ...].                       *)
(***************************************************************************)
\* ObjectCode::PLACEHOLDER_ADDR
PLACEHOLDER_ADDR == Word(ADDRESS_SPACE_WORDS - 1)

LabelError(line_number, type, name) ==
    [kind |-> "Err", error |-> <<"LabelError", line_number, type, name>>]

RECURSIVE label_defs_from_late_full_check(_, _, _, _)
\* As label_defs_from, but the memory counts as full only once
\* number_of_words is above LINEAR_ADDRESS_SPACE_WORDS.
label_defs_from_late_full_check(stmt, j, label_map, number_of_words) ==
    IF j > Len(stmt.label_defs) THEN [kind |-> "Ok", label_map |-> label_map]
    ELSE LET prefix == stmt.label_defs[j][1]
             name == stmt.label_defs[j][2]
         IN  IF prefix # None /\ Unwrap(prefix) # "this"
             THEN LabelError(stmt.line_number, "BadDefPrefix", Unwrap(prefix))
             ELSE IF name \in DOMAIN label_map
             THEN LabelError(stmt.line_number, "Duplicate", name)
             ELSE IF number_of_words > LINEAR_ADDRESS_SPACE_WORDS
             THEN LabelError(stmt.line_number, "BehindFullMemory", name)
             ELSE label_defs_from_late_full_check(stmt, j + 1,
                     [n \in (DOMAIN label_map) \cup {name} |->
                         IF n = name THEN <<stmt.line_number, Word(number_of_words)>>
                         ELSE label_map[n]],
                     number_of_words)

RECURSIVE label_defs_from(_, _, _, _)
\* build_label_map: the inner loop over the label definitions of one
\* statement, from definition j on.  The label map is a function from the
\* names to <<line number, address>>.
label_defs_from(stmt, j, label_map, number_of_words) ==
    IF j > Len(stmt.label_defs) THEN [kind |-> "Ok", label_map |-> label_map]
    ELSE LET prefix == stmt.label_defs[j][1]
             name == stmt.label_defs[j][2]
         IN  IF prefix # None /\ Unwrap(prefix) # "this"
             THEN LabelError(stmt.line_number, "BadDefPrefix", Unwrap(prefix))
             ELSE IF name \in DOMAIN label_map
             THEN LabelError(stmt.line_number, "Duplicate", name)
             ELSE IF number_of_words >= LINEAR_ADDRESS_SPACE_WORDS
             THEN LabelError(stmt.line_number, "BehindFullMemory", name)
             ELSE label_defs_from(stmt, j + 1,
                     [n \in (DOMAIN label_map) \cup {name} |->
                         IF n = name THEN <<stmt.line_number, Word(number_of_words)>>
                         ELSE label_map[n]],
                     number_of_words)

RECURSIVE build_label_map_from_counts_first(_, _, _, _)
\* As build_label_map_from, but a statement is counted before its label
\* definitions are bound.
build_label_map_from_counts_first(program, i, label_map, number_of_words) ==
    IF i > Len(program)
    THEN [kind |-> "Ok", label_map |-> label_map, number_of_words |-> number_of_words]
    ELSE LET stmt == program[i]
             words == number_of_words + required_words(stmt)
             defs == label_defs_from(stmt, 1, label_map, words)
         IN  IF defs.kind = "Err" THEN defs
             ELSE IF words > LINEAR_ADDRESS_SPACE_WORDS
             THEN [kind |-> "Err", error |-> <<"OverflowError", stmt.line_number>>]
             ELSE build_label_map_from_counts_first(program, i + 1, defs.label_map, words)

RECURSIVE build_label_map_from(_, _, _, _)
\* build_label_map: the outer loop, from statement i on.
build_label_map_from(program, i, label_map, number_of_words) ==
    IF i > Len(program)
    THEN [kind |-> "Ok", label_map |-> label_map, number_of_words |-> number_of_words]
    ELSE LET stmt == program[i]
             defs == label_defs_from(stmt, 1, label_map, number_of_words)
             words == number_of_words + required_words(stmt)
         IN  IF defs.kind = "Err" THEN defs
             ELSE IF words > LINEAR_ADDRESS_SPACE_WORDS
             THEN [kind |-> "Err", error |-> <<"OverflowError", stmt.line_number>>]
             ELSE build_label_map_from(program, i + 1, defs.label_map, words)

\* ObjectCode::build_label_map
build_label_map(program) ==
    build_label_map_from(program, 1, [n \in {} |-> << >>], 0)

\* As resolve_addr, but the symbol records the line of the instruction in
\* place of its address.
resolve_addr_records_line(addr, instruction_address, line_number, label_map) ==
    IF addr[1] = "Address"
    THEN [kind |-> "Ok", word |-> addr[2], symbol |-> None]
    ELSE LET prefix == addr[2]
             name == addr[3]
         IN  IF prefix # None
             THEN [kind |-> "Ok", word |-> PLACEHOLDER_ADDR,
                   symbol |-> Some([instruction_address |-> Word(line_number),
                                    label |-> [prefix |-> Unwrap(prefix),
                                               name |-> name]])]
             ELSE IF name \in DOMAIN label_map
             THEN [kind |-> "Ok", word |-> label_map[name][2], symbol |-> None]
             ELSE LabelError(line_number, "NotResolved", name)

\* The closure resolve_addr: the address, and the symbol it appends to the
\* symbol table if it appends one.
resolve_addr(addr, instruction_address, line_number, label_map) ==
    IF addr[1] = "Address"
    THEN [kind |-> "Ok", word |-> addr[2], symbol |-> None]
    ELSE LET prefix == addr[2]
             name == addr[3]
         IN  IF prefix # None
             THEN [kind |-> "Ok", word |-> PLACEHOLDER_ADDR,
                   symbol |-> Some([instruction_address |-> instruction_address,
                                    label |-> [prefix |-> Unwrap(prefix),
                                               name |-> name]])]
             ELSE IF name \in DOMAIN label_map
             THEN [kind |-> "Ok", word |-> label_map[name][2], symbol |-> None]
             ELSE LabelError(line_number, "NotResolved", name)

RECURSIVE Repeat(_, _)
\* n pushes of the same word.
Repeat(word, n) == IF n = 0 THEN << >> ELSE <<word>> \o Repeat(word, n - 1)

RECURSIVE assemble_from(_, _, _, _, _)
\* assemble_with_repr: the loop over the program, from statement i on.
assemble_from(program, i, label_map, raw_code, symbols) ==
    IF i > Len(program)
    THEN [kind |-> "Ok", raw_code |-> raw_code, symbol_table |-> symbols]
    ELSE LET stmt == program[i]
             content == IF stmt.content = None THEN <<"None">> ELSE Unwrap(stmt.content)
         IN  IF content[1] = "Data"
             THEN assemble_from(program, i + 1, label_map,
                      raw_code \o Repeat(content[2], data_times(content)), symbols)
             ELSE IF content[1] = "Instruction"
             THEN LET addr == Word(Len(raw_code))
                      tag == content[2]
                      resolved ==
                          IF Len(content) = 3 /\ tag \notin WordArgTags
                          THEN resolve_addr(content[3], addr, stmt.line_number, label_map)
                          ELSE [kind |-> "Ok", symbol |-> None,
                                word |-> IF Len(content) = 3 THEN content[3] ELSE Word(0)]
                      instruction ==
                          IF Len(content) = 2 THEN <<tag>> ELSE <<tag, resolved.word>>
                  IN  IF resolved.kind = "Err" THEN resolved
                      ELSE IF ~word_from_instruction_fits(instruction)
                      THEN [kind |-> "panic",
                            message |-> IF tag = "RotateRight"
                                        THEN "Payload for extended format exceeded"
                                        ELSE "Payload for basic format exceeded"]
                      ELSE assemble_from(program, i + 1, label_map,
                               Append(raw_code, word_from_instruction(instruction)),
                               IF resolved.symbol = None THEN symbols
                               ELSE Append(symbols, Unwrap(resolved.symbol)))
             ELSE assemble_from(program, i + 1, label_map, raw_code, symbols)

\* The names an instruction of the program refers to as a label operand.
referenced_labels(program) ==
    {Unwrap(program[i].content)[3][3] :
        i \in {k \in DOMAIN program :
                  /\ program[k].content # None
                  /\ Unwrap(program[k].content)[1] = "Instruction"
                  /\ Len(Unwrap(program[k].content)) = 3
                  /\ Unwrap(program[k].content)[2] \notin WordArgTags
                  /\ Unwrap(program[k].content)[3][1] = "Label"}}

\* ObjectCode::find_unused_labels: the diagnostics it may push.  They come
\* in the iteration order of the HashMap that is left, which is any order.
find_unused_labels(program, label_map) ==
    LET unused == (DOMAIN label_map) \ referenced_labels(program)
        orders == {o \in [1..Cardinality(unused) -> unused] :
                      \A i, j \in DOMAIN o : i # j => o[i] # o[j]}
    IN  {[i \in DOMAIN o |-> <<label_map[o[i]][1], "UnusedLocalLabel", o[i]>>] :
            o \in orders}

\* ObjectCode::assemble: the results it may return.
assemble(source) ==
    LET parsed == parse(source)
        mapped == build_label_map(parsed.program)
        code == assemble_from(parsed.program, 1, mapped.label_map, << >>, << >>)
    IN  IF parsed.kind = "Err" THEN {parsed}
        ELSE IF mapped.kind = "Err" THEN {mapped}
        ELSE IF code.kind # "Ok" THEN {code}
        ELSE {[kind |-> "Ok", raw_code |-> code.raw_code,
               symbol_table |-> code.symbol_table, diagnostics |-> d] :
                 d \in find_unused_labels(parsed.program, mapped.label_map)}

(***************************************************************************)
(* unit/memory.rs: loading object code.                                    *)
(***************************************************************************)
\* memory::Unit::resolve_symbol_table: it resolves every symbol to the
\* same device address and never fails.
resolve_symbol_table(symbol_table) ==
    [i \in DOMAIN symbol_table |->
        [instruction_address |-> symbol_table[i].instruction_address,
         device_address |-> W(0, LoMod - 1)]]

RECURSIVE insert_symbols_from(_, _, _)
\* memory::Unit::load_code: the loop over the resolved symbols, from symbol
\* i on.
insert_symbols_from(linear_memory, resolved_symbols, i) ==
    IF i > Len(resolved_symbols) THEN linear_memory
    ELSE LET symbol == resolved_symbols[i]
             index == symbol.instruction_address.lo
         IN  insert_symbols_from(
                 mem_set(linear_memory, index,
                         WordAnd(mem_get(linear_memory, index),
                                 WordAnd(symbol.device_address, W(0, LoMod - 1)))),
                 resolved_symbols, i + 1)

\* memory::Unit::load_code (always Ok(())).
load_code(mu, code) ==
    LET resolved_symbols == resolve_symbol_table(code.symbol_table)
        loaded == load_raw_code(mu, code.raw_code)
    IN  [loaded EXCEPT !.linear_memory = insert_symbols_from(@, resolved_symbols, 1)]

(***************************************************************************)
(* The source texts the model assembles.                                   *)
(***************************************************************************)
Instr(tag) == <<"Instruction", tag>>
InstrWord(tag, sign, n) == <<"Instruction", tag, Lit(sign, Word(n))>>
InstrAddr(tag, n) == <<"Instruction", tag, <<"Address", Lit("", Word(n))>>>>
InstrLabel(tag, name) == <<"Instruction", tag, <<"Label", None, name>>>>
InstrDevice(tag, prefix, name) == <<"Instruction", tag, <<"Label", Some(prefix), name>>>>
Line(content) == [label_defs |-> << >>, content |-> Some(content)]
Labelled(name, content) == [label_defs |-> <<<<None, name>>>>, content |-> Some(content)]
EmptyLine == [label_defs |-> << >>, content |-> None]
Dat(word, times) == Line(<<"Data", Lit("", word), Some(Lit("", times))>>)
LabelOnly(prefix, name) == [label_defs |-> <<<<prefix, name>>>>, content |-> None]
WithLabel(prefix, name, line) ==
    [line EXCEPT !.label_defs = <<<<prefix, name>>>> \o @]
Hlt == Line(Instr("Halt"))

\* LDC c \n HLT, for some constants c of 28 bits, written with and without
\* a sign.
ConstantSamples == {0, 1, 66, 2^24, ADDRESS_SPACE_WORDS - 2, ADDRESS_SPACE_WORDS - 1}
LdcHlt(sign, c) == <<Line(InstrWord("LoadConstant", sign, c)), Line(Instr("Halt"))>>
LdcSources == {LdcHlt(sign, c) : sign \in {"", "+"}, c \in ConstantSamples}

\* LDC -1 \n HLT   and   LDC -1 \n JMN skip \n LDC 0 \n skip: HLT
SourceNegative == LdcHlt("-", 1)
SourceJmn(sign) ==
    <<Line(InstrWord("LoadConstant", sign, 1)), Line(InstrLabel("JumpIfNegative", "skip")),
      Line(InstrWord("LoadConstant", "", 0)), Labelled("skip", Instr("Halt"))>>

\* Programs that refer to device labels, one with an empty line and a label
\* nothing refers to.
DeviceTags == {"Add", "LoadValue", "StoreValue", "Jump"}
DeviceSources ==
    {<<Line(InstrWord("LoadConstant", "", 5)), Line(InstrDevice(t, "dev", "port")),
       Line(Instr("Halt"))>> : t \in DeviceTags}
    \cup {<<Line(InstrDevice(t, "dev", "port")), EmptyLine,
            Labelled("end", InstrDevice(u, "this", "end")),
            Labelled("spare", Instr("Halt"))>> : t, u \in DeviceTags}

\* Texts the assembler rejects.
RejectedSources ==
    { <<Line(InstrLabel("Jump", "nowhere"))>>,
      <<Labelled("twice", Instr("Halt")), Labelled("twice", Instr("Halt"))>>,
      <<Line(Instr("Halt")), Line(InstrWord("LoadConstant", "-", 0)),
        Line(<<"Data", Lit("-", W(8, 1)), None>>)>>,
      <<Line(<<"Data", Lit("", Word(7)), Some(Lit("", W(1, 0)))>>)>> }

\* foo: HLT
SourceFoo == <<Labelled("foo", Instr("Halt"))>>

\* JMP dev.foo \n foo: HLT
SourceDevFoo == <<Line(InstrDevice("Jump", "dev", "foo")), Labelled("foo", Instr("Halt"))>>

\* Three labels nothing refers to, and one that is referred to.
SourceUnused ==
    <<Labelled("zeta", InstrLabel("Jump", "used")), EmptyLine,
      Labelled("alpha", Instr("Not")), WithLabel(None, "used", Labelled("mid", Instr("Halt")))>>

\* References of every shape behind data words and a line with a label only.
SourceReferences ==
    <<Line(InstrLabel("Jump", "x")), Dat(Word(7), Word(3)), LabelOnly(None, "x"),
      Line(InstrDevice("LoadValue", "dev", "port")), EmptyLine,
      Line(InstrAddr("Add", 5)),
      Labelled("y", InstrDevice("StoreValue", "this", "y")),
      Line(InstrDevice("LoadValue", "dev", "port")), Line(InstrLabel("Jump", "y"))>>

\* JMP end \n HLT \n end:
SourceTrailing ==
    <<Line(InstrLabel("Jump", "end")), Line(Instr("Halt")), LabelOnly(None, "end")>>

LabelSources ==
    {SourceFoo, SourceDevFoo, SourceUnused, SourceReferences, SourceTrailing}

\* Statements that fill the linear memory, or nearly.
Full == Dat(Word(7), Word(LINEAR_ADDRESS_SPACE_WORDS))
AlmostFull == Dat(Word(7), Word(LINEAR_ADDRESS_SPACE_WORDS - 1))

\* A line no literal of which word_token matches: DAT -0x80000001
Unparsable == Line(<<"Data", Lit("-", W(8, 1)), None>>)

\* Texts with more than one thing wrong, on different lines and in
\* different phases of the assembly.
PhaseSources ==
    { <<Labelled("twice", Instr("Halt")), Labelled("twice", Instr("Halt")), Unparsable>>,
      <<Line(InstrLabel("Jump", "nowhere")), Unparsable, Unparsable>>,
      <<LabelOnly(Some("dev"), "x"), Full, Hlt, Unparsable>>,
      <<Line(InstrLabel("Jump", "nowhere")), Hlt, LabelOnly(Some("dev"), "x")>>,
      <<Line(InstrLabel("Jump", "nowhere")), Labelled("a", Instr("Halt")),
        EmptyLine, Labelled("a", Instr("Halt"))>>,
      <<Line(InstrLabel("Jump", "nowhere")), Full, Hlt>>,
      <<Line(InstrLabel("Jump", "nowhere")), Full, LabelOnly(None, "after")>>,
      <<Labelled("a", Instr("Halt")), LabelOnly(None, "a"), LabelOnly(Some("dev"), "b")>>,
      <<LabelOnly(Some("dev"), "b"), Labelled("a", Instr("Halt")), LabelOnly(None, "a")>>,
      <<WithLabel(None, "start", Full), LabelOnly(Some("dev"), "start")>>,
      <<WithLabel(None, "start", Full), LabelOnly(None, "start")>>,
      <<Full, WithLabel(None, "after", Hlt)>>,
      <<Hlt, WithLabel(Some("dev"), "x", Full)>>,
      <<Labelled("a", Instr("Halt")), Line(InstrLabel("Jump", "nowhere")),
        Line(InstrLabel("Jump", "a"))>> }

\* Lines the parser accepts whose literal is wider than the payload of the
\* instruction: ADD 0x10000000, LDC 0x10000000, RAR 0x1000000, JMP -1,
\* RAR -1, each followed by HLT.
WidthSources ==
    { <<Line(<<"Instruction", "Add", <<"Address", Lit("", W(1, 0))>>>>), Hlt>>,
      <<Line(<<"Instruction", "LoadConstant", Lit("", W(1, 0))>>), Hlt>>,
      <<Line(InstrWord("RotateRight", "", 2^24)), Hlt>>,
      <<Line(<<"Instruction", "Jump", <<"Address", Lit("-", Word(1))>>>>), Hlt>>,
      <<Line(InstrWord("RotateRight", "-", 1)), Hlt>> }

Sources ==
    LdcSources \cup {SourceNegative, SourceJmn("-"), SourceJmn("")}
    \cup DeviceSources \cup RejectedSources \cup LabelSources \cup PhaseSources
    \cup WidthSources

(***************************************************************************)
(* The state machine.                                                      *)
(***************************************************************************)
VARIABLES
    mima,         \* the machine: Mima
    raw_code,     \* the image loaded into the fresh machine: None, or Some(words)
    calls,        \* the number of perform_microcycle calls made so far
    ret,          \* what the last call returned (meaningful once calls > 0)
    cycle_start,  \* the machine as it was when the last call with counter 1 began
    source,       \* the source text given to the assembler: None, or Some(lines)
    object_code,  \* what ObjectCode::assemble returned: None, or Some(result)
    input,        \* the value given to a conversion: None, or Some(<<kind, value>>)
    output        \* the results of the conversions applied to it, in order

vars == <<mima, raw_code, calls, ret, cycle_start, source, object_code,
          input, output>>

Init ==
    /\ mima = mima_new
    /\ raw_code = None
    /\ calls = 0
    /\ ret = None
    /\ cycle_start = mima_new
    /\ source = None
    /\ object_code = None
    /\ input = None
    /\ output = << >>

\* memory_unit.load_raw_code(image) on the fresh machine.
Load ==
    /\ raw_code = None /\ calls = 0
    /\ \E image \in Images :
          /\ mima' = [mima EXCEPT !.memory_unit = load_raw_code(@, image)]
          /\ raw_code' = Some(image)
    /\ UNCHANGED <<calls, ret, cycle_start, source, object_code, input, output>>

\* One call of perform_microcycle.  A call that aborts ends the process: no
\* call follows it.
Step ==
    /\ calls < MaxCalls
    /\ mima.panic = "none"
    /\ LET r == perform_microcycle(mima)
       IN  /\ mima' = r.machine
           /\ ret' = IF r.machine.panic = "none" THEN r.returned ELSE ret
    /\ calls' = calls + 1
    /\ cycle_start' = IF is_running(mima.control_unit) /\ mima.control_unit.microcycle = 1
                      THEN mima ELSE cycle_start
    /\ UNCHANGED <<raw_code, source, object_code, input, output>>

Next == Load \/ Step

Spec == Init /\ [][Next]_vars

(***************************************************************************)
(* The second state machine: a source text is assembled, the object code   *)
(* is loaded into the fresh machine with load_code, and the machine runs.  *)
(***************************************************************************)
AsmInit ==
    /\ mima = mima_new
    /\ raw_code = None
    /\ calls = 0
    /\ ret = None
    /\ cycle_start = mima_new
    /\ source \in {Some(text) : text \in Sources}
    /\ object_code = None
    /\ input = None
    /\ output = << >>

\* ObjectCode::assemble(source).  An assembly that aborts ends the process.
Assemble ==
    /\ object_code = None
    /\ \E result \in assemble(Unwrap(source)) : object_code' = Some(result)
    /\ UNCHANGED <<mima, raw_code, calls, ret, cycle_start, source, input, output>>

\* memory_unit.load_code(&object_code) on the fresh machine.
LoadCode ==
    /\ object_code # None /\ Unwrap(object_code).kind = "Ok"
    /\ raw_code = None /\ calls = 0
    /\ mima' = [mima EXCEPT !.memory_unit = load_code(@, Unwrap(object_code))]
    /\ raw_code' = Some(Unwrap(object_code).raw_code)
    /\ UNCHANGED <<calls, ret, cycle_start, source, object_code, input, output>>

\* The machine runs only once the code is loaded.
AsmStep == raw_code # None /\ Step

AsmNext == Assemble \/ LoadCode \/ AsmStep

AsmSpec == AsmInit /\ [][AsmNext]_vars

(***************************************************************************)
(* The conversions on their own: the instruction codec of types/mod.rs and *)
(* the number literals of the parser.  A behaviour picks one input and     *)
(* applies the conversions that fit the value at hand, one after another.  *)
(*   <<"Instruction", instruction>>   encoded by From<Instruction> for Word*)
(*   <<"Word", word>>                 decoded by From<Word> for Instruction*)
(*   <<"Text", [sign, digits]>>       lexed by word_token (decimal, no     *)
(*                                    radix prefix)                        *)
(* and the passes of the assembler on a parsed program:                    *)
(*   <<"Program", statements>>        pass 1, build_label_map              *)
(*   <<"LabelMap", result>>           pass 2, the loop of                  *)
(*                                    assemble_with_repr that emits the    *)
(*                                    code (when pass 1 returned Ok)       *)
(* and the bus transfer on a machine:                                      *)
(*   <<"Transfer", [machine, xfer]>>  Mima::perform_bus_xfer               *)
(* and the loading of images, one after the other, into a machine:         *)
(*   <<"Images", [machine, pending]>> memory::Unit::load_raw_code with the *)
(*                                    first pending image                  *)
(***************************************************************************)
\* A behaviour applies at most MaxConversions conversions to its input.
MaxConversions == 2
\* Pass 2 is run on programs of at most MaxEmit words.
MaxEmit == 9

\* One more decimal digit: 10 * (hi * 2^28 + lo) + d, in the same two limbs.
mul10_add(n, d) ==
    LET t == n.lo * 5
        r == (t % 2^27) * 2 + d
    IN  [hi |-> n.hi * 10 + t \div 2^27 + r \div LoMod, lo |-> r % LoMod]

RECURSIVE from_str_radix_10(_, _)
\* u32::from_str_radix(s, 10) digit by digit: the number so far, in limbs.
from_str_radix_10(digits, n) ==
    IF digits = << >> THEN n
    ELSE from_str_radix_10(Tail(digits), mul10_add(n, Head(digits)))

\* word_token_dec: 1 to 10 decimal digits whose number fits a u32.
word_token_dec(digits) ==
    IF Len(digits) \notin 1..10 THEN None
    ELSE LET n == from_str_radix_10(digits, [hi |-> 0, lo |-> 0])
         IN  IF n.hi >= HiMod THEN None ELSE Some(W(n.hi, n.lo))

\* word_token on a text without radix prefix: the sign, then word_token_dec,
\* then the closure that folds the sign in.
unprefixed_word_token_dec(text) ==
    LET num == word_token_dec(text.digits)
    IN  IF num = None THEN None ELSE word_token(Lit(text.sign, Unwrap(num)))

\* Payloads and words the conversions are tried on.
SamplePayloads ==
    {Word(0), Word(1), Word(2^24 - 1), Word(2^24), Word(LoMod - 1), W(1, 0)}

SampleInstructions ==
    {<<BasicTags[i], p>> : i \in DOMAIN BasicTags, p \in SamplePayloads}
    \cup {<<"RotateRight", p>> : p \in SamplePayloads}
    \cup {<<"Halt">>, <<"Not">>, <<"NoOperation">>}

SampleWords ==
    {W(hi, sub * 2^24 + pl) :
        hi \in 0..(HiMod - 1), sub \in {0, 1, 2, 3, 15}, pl \in {0, 1, 2^24 - 1}}

SampleTexts ==
    LET digits == {<<0>>, <<7>>, <<4, 2>>, <<0, 0, 9>>,
                   <<2, 6, 8, 4, 3, 5, 4, 5, 5>>, <<2, 6, 8, 4, 3, 5, 4, 5, 6>>,
                   <<2, 1, 4, 7, 4, 8, 3, 6, 4, 7>>, <<2, 1, 4, 7, 4, 8, 3, 6, 4, 8>>,
                   <<2, 1, 4, 7, 4, 8, 3, 6, 4, 9>>, <<4, 2, 9, 4, 9, 6, 7, 2, 9, 5>>,
                   <<4, 2, 9, 4, 9, 6, 7, 2, 9, 6>>, <<9, 9, 9, 9, 9, 9, 9, 9, 9, 9>>}
    IN  {[sign |-> s, digits |-> d] : s \in {"", "+", "-"}, d \in digits}

\* Texts around the size of the linear memory and around the label
\* definitions.
SizedSources ==
    { <<Full>>,
      <<Full, Hlt>>,
      <<Full, EmptyLine, Dat(Word(1), Word(0)), Hlt, Hlt>>,
      <<Hlt, EmptyLine, Full, Hlt>>,
      <<AlmostFull, Labelled("last", Instr("Halt"))>>,
      <<AlmostFull, Hlt, Dat(Word(1), Word(0)), EmptyLine, Dat(Word(1), Word(2))>>,
      <<AlmostFull, Labelled("last", Instr("Halt")), LabelOnly(None, "after")>>,
      <<Full, LabelOnly(None, "after")>>,
      <<WithLabel(None, "start", Full), EmptyLine, LabelOnly(Some("this"), "after"), Hlt>>,
      <<WithLabel(None, "start", Full), LabelOnly(None, "start")>>,
      <<WithLabel(None, "start", Full), LabelOnly(Some("dev"), "start")>>,
      <<Dat(Word(7), W(15, LoMod - 1))>>,
      <<Hlt, Dat(Word(7), W(12, 0)), Dat(Word(7), W(15, LoMod - 1))>>,
      <<Dat(Word(7), Word(3)), WithLabel(None, "a", Labelled("b", Instr("Halt")))>>,
      <<Labelled("a", Instr("Halt")), EmptyLine,
        WithLabel(Some("this"), "b", Labelled("a", Instr("Halt")))>>,
      <<Labelled("a", Instr("Halt")), EmptyLine, LabelOnly(Some("this"), "a")>>,
      <<WithLabel(Some("this"), "a", Hlt), Line(InstrLabel("Jump", "a")),
        LabelOnly(Some("this"), "b")>>,
      <<Hlt, LabelOnly(Some("dev"), "a")>>,
      <<Labelled("a", Instr("Halt")), LabelOnly(Some("dev"), "a")>>,
      <<LabelOnly(Some("This"), "a")>> }

\* The programs the passes are run on: what ProgramToken::parse returns
\* for the texts it accepts.
SamplePrograms ==
    {parse(text).program :
        text \in {t \in Sources \cup SizedSources : parse(t).kind = "Ok"}}

\* Machines with a different word in every register, ACC negative or not.
SampleMachine(acc) ==
    [mima_new EXCEPT
        !.arithmetic_unit = [@ EXCEPT !.acc = acc, !.x = Word(11), !.y = Word(12),
                                      !.z = Word(13)],
        !.control_unit = [@ EXCEPT !.iar = Word(14), !.ir = W(3, 2^24 + 15)],
        !.memory_unit = [@ EXCEPT !.sar = Word(16), !.sir = Word(17)]]
SampleMachines == {SampleMachine(W(8, 5)), SampleMachine(W(7, 5))}

\* The transfers Xfer::new accepts, over some destination sets, as they
\* are and made accumulator-dependent.
SampleDestinations ==
    {{"ACC"}, {"X", "Y"}, {"IAR", "IR"}, {"ACC", "SAR", "SIR"}, valid_destination_regs}
SampleXfers ==
    LET built == {xfer_new({source_reg}, destinations, source_bitmask) :
                     source_reg \in valid_source_regs,
                     destinations \in SampleDestinations,
                     source_bitmask \in {SOURCE_BITMASK_FULL,
                                         SOURCE_BITMASK_BASIC_PAYLOAD,
                                         SOURCE_BITMASK_EXTENDED_PAYLOAD}}
        accepted == {x \in built :
                        xfer_new_panic(x.source, x.destinations, x.source_bitmask)
                            = "none"}
    IN  accepted \cup {[x EXCEPT !.is_acc_dependent = TRUE] : x \in accepted}

RECURSIVE after_calls(_, _)
\* The machine after n calls of perform_microcycle.
after_calls(m, n) ==
    IF n = 0 THEN m
    ELSE CHOOSE last \in {after_calls(next, n - 1) : next \in {perform_microcycle(m).machine}} :
            TRUE

\* The images loaded one over the other: of no, one, two and four words.
LoadedImages ==
    { << >>,
      <<Ins("LoadConstant", 9)>>,
      <<Ins("StoreValue", 3), Ins("Jump", 0)>>,
      <<Ins("LoadConstant", 3), Ins("Add", 3), HaltWord, Word(4)>> }

\* The machines they are loaded into: a fresh one, one with a word in every
\* register, and machines that run a program with a store, stopped after
\* 1 call (a read is pending, TRA is set), after 21 calls (the store to
\* address 6 is pending) and after 33 calls (address 6 has been written, a
\* store into the image is under way).
Running ==
    [mima_new EXCEPT !.memory_unit =
        load_raw_code(@, <<Ins("LoadConstant", 5), Ins("StoreValue", 6),
                           Ins("StoreValue", 1), HaltWord>>)]
LoadMachines ==
    {mima_new, SampleMachine(W(8, 5)), after_calls(Running, 1), after_calls(Running, 21),
     after_calls(Running, 33)}

ConversionInputs ==
    {<<"Images", [machine |-> m, pending |-> <<first, second>>]>> :
        m \in LoadMachines, first \in LoadedImages, second \in LoadedImages}
    \cup {<<"Instruction", i>> : i \in SampleInstructions}
    \cup {<<"Word", w>> : w \in SampleWords}
    \cup {<<"Text", t>> : t \in SampleTexts}
    \cup {<<"Program", program>> : program \in SamplePrograms}
    \cup {<<"Transfer", [machine |-> m, xfer |-> x]>> :
             m \in SampleMachines, x \in SampleXfers}

\* The value the next conversion is applied to.
Current == IF output = << >> THEN Unwrap(input) ELSE output[Len(output)]

ConvInit ==
    /\ mima = mima_new
    /\ raw_code = None
    /\ calls = 0
    /\ ret = None
    /\ cycle_start = mima_new
    /\ source = None
    /\ object_code = None
    /\ input \in {Some(v) : v \in ConversionInputs}
    /\ output = << >>

Converted(result) ==
    /\ Len(output) < MaxConversions
    /\ output' = Append(output, result)
    /\ UNCHANGED <<mima, raw_code, calls, ret, cycle_start, source, object_code,
                   input>>

\* Word::from(instruction); a failed assertion ends the process.
Encode ==
    /\ Current[1] = "Instruction"
    /\ Converted(IF word_from_instruction_fits(Current[2])
                 THEN <<"Word", word_from_instruction(Current[2])>>
                 ELSE <<"panic", IF Current[2][1] = "RotateRight"
                                 THEN "Payload for extended format exceeded"
                                 ELSE "Payload for basic format exceeded">>)

\* Instruction::from(word)
Decode ==
    /\ Current[1] = "Word"
    /\ Converted(<<"Instruction", instruction_from_word(Current[2])>>)

\* word_token(text)
Lex ==
    /\ Current[1] = "Text"
    /\ Converted(<<"WordToken", unprefixed_word_token_dec(Current[2])>>)

\* ObjectCode::build_label_map(&program)
BuildLabelMap ==
    /\ Current[1] = "Program"
    /\ Converted(<<"LabelMap", build_label_map(Current[2])>>)

\* The loop of assemble_with_repr over the program, with the label map
\* that pass 1 returned.
EmitCode ==
    /\ Current[1] = "LabelMap"
    /\ Current[2].kind = "Ok"
    /\ Current[2].number_of_words <= MaxEmit
    /\ Converted(<<"Code", assemble_from(Unwrap(input)[2], 1, Current[2].label_map,
                                         << >>, << >>)>>)

\* self.perform_bus_xfer(&bus_xfer)
Transfer ==
    /\ Current[1] = "Transfer"
    /\ Converted(<<"Machine", perform_bus_xfer(Current[2].machine, Current[2].xfer)>>)

\* mima.memory_unit.load_raw_code(&raw_code), with the first pending image
LoadRawCode ==
    /\ Current[1] = "Images"
    /\ Current[2].pending # << >>
    /\ Converted(<<"Images",
                   [machine |-> [Current[2].machine EXCEPT
                                    !.memory_unit = load_raw_code(@, Head(Current[2].pending))],
                    pending |-> Tail(Current[2].pending)]>>)

ConvNext ==
    Encode \/ Decode \/ Lex \/ BuildLabelMap \/ EmitCode \/ Transfer \/ LoadRawCode

ConvSpec == ConvInit /\ [][ConvNext]_vars

(***************************************************************************)
(* Shorthands for the properties.                                          *)
(***************************************************************************)
au == mima.arithmetic_unit
cu == mima.control_unit
mu == mima.memory_unit

\* The process is alive: no call has aborted.
Alive == mima.panic = "none"

\* The linear memory of the fresh machine after loading, at address a.
InitialWord(a) ==
    IF raw_code # None /\ a < Len(Unwrap(raw_code)) THEN Unwrap(raw_code)[a + 1]
    ELSE HaltWord

\* The word the cycle that began in cycle_start fetches, and its decoding.
StartMemory == cycle_start.memory_unit.linear_memory
FetchedWord == mem_get(StartMemory, cycle_start.control_unit.iar.lo)
FetchedInstruction == instruction_from_word(FetchedWord)

\* A cycle has just been completed: twelve calls after cycle_start.
CycleDone ==
    /\ Alive /\ calls > 0 /\ cu.microcycle = 1
    /\ from_address(cycle_start.control_unit.iar) = "Linear"

(***************************************************************************)
(* C1. On a fresh machine with any loaded image, every call that returns   *)
(* while RUN is true moves the microcycle counter from c to c + 1, or from *)
(* 12 to 1; the counter is always in 1..12; and after the N-th call it is  *)
(* (N mod 12) + 1 as long as no HLT has completed (RUN is still true).     *)
(***************************************************************************)
C1_CounterCycles ==
    /\ [](cu.microcycle \in 1..12)
    /\ []((Alive /\ cu.status.run) => cu.microcycle = (calls % 12) + 1)
    /\ [][(cu.status.run /\ calls' = calls + 1 /\ mima'.panic = "none")
            => mima'.control_unit.microcycle =
                  IF cu.microcycle = 12 THEN 1 ELSE cu.microcycle + 1]_vars

\* The counter has wrapped from 12 to 1 twice and moved on.
C1_Witness == Alive /\ cu.status.run /\ calls = 26 /\ cu.microcycle = 3

(***************************************************************************)
(* C2. Between two calls, control_unit.instruction is Some(_) exactly when *)
(* the counter is in 6..12 and None exactly when it is in 1..5.            *)
(***************************************************************************)
C2_InstructionIffExecute ==
    /\ (cu.instruction # None) <=> (cu.microcycle \in 6..12)
    /\ (cu.instruction = None) <=> (cu.microcycle \in 1..5)

\* An execute phase of a later cycle, with an instruction that is not HLT.
C2_Witness ==
    /\ calls > 12 /\ cu.microcycle = 9
    /\ cu.instruction # None /\ cu.instruction # Some(<<"Halt">>)

(***************************************************************************)
(* C3. signal_alu is never called while an ALU job is pending and          *)
(* signal_memory never while a memory job is pending: neither "already in  *)
(* progress" assertion ever fails.                                         *)
(***************************************************************************)
C3_NoSignalWhileBusy ==
    mima.panic \notin {"ALU operation is already in progress.",
                       "Memory access is already in progress."}

\* Both units hold a job at once: the fetch's read and its increment.
C3_Witness ==
    /\ Alive /\ calls > 12
    /\ au.work # None /\ mu.work # None

(***************************************************************************)
(* C4. Whenever perform_microcycle signals the memory unit, SAR holds an   *)
(* address in [0, 2^28): from_address never reaches its "not a valid       *)
(* address" panic, also after IAR has been incremented past, or jumped to, *)
(* the last address of the address space.                                  *)
(***************************************************************************)
C4_AddressAlwaysValid == mima.panic # "not a valid address"

(***************************************************************************)
(* C5. Once RUN is false, every call returns None and leaves the whole     *)
(* machine unchanged: registers, flags, counter, instruction, pending work *)
(* and linear memory.                                                      *)
(***************************************************************************)
C5_HaltedIsNoOp ==
    [][(~cu.status.run) => (mima' = mima /\ ret' = None)]_vars

\* A call has been made on a halted machine.
C5_Witness == ~cu.status.run /\ calls >= 25 /\ ret = None

(***************************************************************************)
(* C6. RUN goes from true to false exactly at the end of microcycle 12 of  *)
(* a cycle whose instruction is HLT: no other microcycle and no other      *)
(* instruction clears it, nothing sets it again, and a call returns None   *)
(* exactly when the machine was halted before it, so the first None is     *)
(* returned by the call right after that microcycle 12.                    *)
(***************************************************************************)
C6_HaltExactlyAfterHlt ==
    [][/\ (cu.status.run /\ ~mima'.control_unit.status.run)
            => (cu.microcycle = 12 /\ cu.instruction = Some(<<"Halt">>))
       /\ (cu.status.run /\ calls' = calls + 1
             /\ cu.microcycle = 12 /\ cu.instruction = Some(<<"Halt">>))
            => ~mima'.control_unit.status.run
       /\ (~cu.status.run) => ~mima'.control_unit.status.run
       /\ (calls' = calls + 1 /\ mima'.panic = "none")
            => ((ret' = None) <=> ~cu.status.run)]_vars

\* The second instruction was HLT: its microcycle 12 has just cleared RUN.
C6_Witness == ~cu.status.run /\ calls = 24 /\ ret # None

(***************************************************************************)
(* C7. On a fresh machine whose word at address 0 decodes to HLT, each of  *)
(* the first 12 calls returns a descriptor and the 13th returns None.      *)
(***************************************************************************)
C7_HltFirst ==
    \* the HLT words: upper nibble 0xF, sub-opcode 0, any lower 24 bits
    (InitialWord(0).hi = 15 /\ InitialWord(0).lo \div 2^24 = 0)
        => /\ Alive
           /\ calls \in 1..12 => ret # None
           /\ calls = 13 => ret = None

\* An image whose first word is HLT with payload bits set, after 13 calls.
C7_Witness == raw_code # None /\ InitialWord(0) = W(15, 5) /\ calls = 13 /\ ret = None

(***************************************************************************)
(* C8. The TRA flag is false between two calls, for linear and device      *)
(* accesses alike, and the assertions of start_xfer and stop_xfer never    *)
(* fail.                                                                   *)
(***************************************************************************)
C8_TraFalse ==
    /\ cu.status.tra = FALSE
    /\ mima.panic \notin {"A transfer is already in progress.",
                          "No transfer is in progress."}

\* A device access has just been signalled.
C8_Witness ==
    /\ Alive /\ mu.work # None
    /\ Unwrap(mu.work).mem_type = "DeviceIO"
    /\ Unwrap(mu.work).remaining_cycles = MICROCYCLES_PER_ACCESS

(***************************************************************************)
(* C9. Fetch: from counter 1 with RUN true and IAR = a in the linear       *)
(* range, after the microcycles 1..5 IR is the word mem[a], IAR is a + 1   *)
(* and the latched instruction is decode(mem[a]).                          *)
(***************************************************************************)
C9_Fetch ==
    (/\ Alive /\ cu.microcycle = 6
     /\ from_address(cycle_start.control_unit.iar) = "Linear")
        => /\ cu.ir = FetchedWord
           /\ cu.iar = W(0, cycle_start.control_unit.iar.lo + 1)
           /\ cu.instruction = Some(FetchedInstruction)

\* The fetch of a later cycle, from an address other than 0, of a word that
\* an earlier STV has written.
C9_Witness ==
    /\ Alive /\ cu.microcycle = 6 /\ calls > 12
    /\ cycle_start.control_unit.iar = Word(CodeLen)
    /\ FetchedWord # HaltWord

(***************************************************************************)
(* C10. For ADD, AND, OR, XOR and EQL with a payload address a in the      *)
(* linear range, after the 12 microcycles of the cycle ACC is              *)
(* op(ACC before, mem[a]): the sum modulo 2^32, the bitwise and / or /     *)
(* xor, or all ones if equal and zero otherwise.  The program              *)
(* LDC 3; ADD val; HLT; val: DAT 4 ends with ACC = 7.                      *)
(***************************************************************************)
RECURSIVE NatBitwise(_, _, _)
\* The bitwise and / or / xor of two naturals.
NatBitwise(op, a, b) ==
    IF a = 0 /\ b = 0 THEN 0
    ELSE LET bit == CASE op = "And" -> IF a % 2 = 1 /\ b % 2 = 1 THEN 1 ELSE 0
                      [] op = "Or"  -> IF a % 2 = 1 \/ b % 2 = 1 THEN 1 ELSE 0
                      [] op = "Xor" -> IF a % 2 # b % 2 THEN 1 ELSE 0
         IN  bit + 2 * NatBitwise(op, a \div 2, b \div 2)

\* What the instruction set asks of the five binary instructions.
ExpectedBinary(tag, x, y) ==
    CASE tag = "Add" ->
            LET carry == IF x.lo + y.lo >= ADDRESS_SPACE_WORDS THEN 1 ELSE 0
                high == x.hi + y.hi + carry
            IN  W(IF high >= 16 THEN high - 16 ELSE high,
                  x.lo + y.lo - carry * ADDRESS_SPACE_WORDS)
      [] tag \in {"And", "Or", "Xor"} ->
            W(NatBitwise(tag, x.hi, y.hi), NatBitwise(tag, x.lo, y.lo))
      [] tag = "Equals" ->
            IF x.hi = y.hi /\ x.lo = y.lo THEN W(15, ADDRESS_SPACE_WORDS - 1) ELSE W(0, 0)

BinaryTags == {"Add", "And", "Or", "Xor", "Equals"}

ExampleAdd == <<Ins("LoadConstant", 3), Ins("Add", 3), HaltWord, Word(4)>>

C10_BinaryInstructions ==
    /\ (/\ CycleDone
        /\ FetchedInstruction[1] \in BinaryTags
        /\ from_address(FetchedInstruction[2]) = "Linear")
         => au.acc = ExpectedBinary(FetchedInstruction[1], cycle_start.arithmetic_unit.acc,
                                    mem_get(StartMemory, FetchedInstruction[2].lo))
    /\ (raw_code = Some(ExampleAdd) /\ ~cu.status.run) => au.acc = Word(7)

\* The example program has halted.
C10_Witness == raw_code = Some(ExampleAdd) /\ ~cu.status.run /\ calls = 36

(***************************************************************************)
(* Further shorthands: the instruction of the cycle just completed, and    *)
(* the word the machine held in IR when the running cycle began, which is  *)
(* the instruction of the cycle before it.                                 *)
(***************************************************************************)
StartAcc == cycle_start.arithmetic_unit.acc
StartIar == cycle_start.control_unit.iar
Executed(tag) == CycleDone /\ FetchedInstruction[1] = tag
PreviousInstruction == instruction_from_word(cycle_start.control_unit.ir)

(***************************************************************************)
(* C11. A cycle executing LDV a, a in the linear range, ends with          *)
(* ACC = mem[a].  A cycle executing STV a, a in the linear range, ends     *)
(* with mem[a] = ACC, ACC unchanged and no write pending; so when a is the *)
(* address of the next instruction, the next fetch reads the stored word.  *)
(***************************************************************************)
C11_LoadStore ==
    /\ (Executed("LoadValue") /\ from_address(FetchedInstruction[2]) = "Linear")
         => au.acc = mem_get(StartMemory, FetchedInstruction[2].lo)
    /\ (Executed("StoreValue") /\ from_address(FetchedInstruction[2]) = "Linear")
         => /\ mem_get(mu.linear_memory, FetchedInstruction[2].lo) = StartAcc
            /\ au.acc = StartAcc
            /\ mu.work = None
    /\ (/\ Alive /\ cu.microcycle = 6 /\ calls > 12
        /\ from_address(StartIar) = "Linear"
        /\ PreviousInstruction = <<"StoreValue", StartIar>>)
         => cu.ir = StartAcc

\* LDC 3; STV 2 has run and the fetch from address 2 has read the 3.
C11_Witness ==
    /\ Alive /\ cu.microcycle = 6 /\ calls > 12
    /\ PreviousInstruction = <<"StoreValue", StartIar>>
    /\ StartAcc = Word(3) /\ cu.ir = Word(3)

(***************************************************************************)
(* C12. A cycle executing JMP a ends with IAR = a.  A cycle executing      *)
(* JMN a fetched from address p ends with IAR = a if bit 31 of ACC is 1    *)
(* and with IAR = p + 1 otherwise, and with ACC unchanged.  The program    *)
(* LDC 1; JMN skip; LDC 0; skip: HLT ends with ACC = 0.                    *)
(***************************************************************************)
ExampleJmn ==
    <<Ins("LoadConstant", 1), Ins("JumpIfNegative", 3), Ins("LoadConstant", 0),
      HaltWord>>

C12_Jumps ==
    /\ Executed("Jump") => cu.iar = FetchedInstruction[2]
    /\ Executed("JumpIfNegative")
         => /\ cu.iar = IF StartAcc.hi >= 8 THEN FetchedInstruction[2]
                                            ELSE W(0, StartIar.lo + 1)
            /\ au.acc = StartAcc
    /\ (raw_code = Some(ExampleJmn) /\ ~cu.status.run) => au.acc = Word(0)

\* A JMN 0 at address 1 has been taken: ACC is negative and IAR is 0, not 2.
C12_Witness ==
    /\ Executed("JumpIfNegative") /\ StartAcc.hi >= 8
    /\ StartIar = Word(1) /\ cu.iar = Word(0)

(***************************************************************************)
(* C13. For a constant c of 28 bits, the source LDC c; HLT assembles, and  *)
(* loaded into a fresh machine it runs for exactly 24 calls: RUN is true   *)
(* before the 24th call has returned, and after it ACC = c, IAR = 2 and    *)
(* RUN is false; the 25th call returns None.                               *)
(***************************************************************************)
\* The constant of the source text in hand, when it is LDC c; HLT.
LdcConstant == Unwrap(Unwrap(source)[1].content)[3].num

C13_LdcHlt ==
    (source # None /\ Unwrap(source) \in LdcSources)
        => /\ object_code # None => Unwrap(object_code).kind = "Ok"
           /\ Alive
           /\ calls < 24 => cu.status.run
           /\ calls >= 24 => (au.acc = LdcConstant /\ cu.iar = Word(2) /\ ~cu.status.run)
           /\ calls >= 25 => ret = None

\* LDC 0x0FFFFFFF; HLT after its 25th call.
C13_Witness ==
    /\ source = Some(LdcHlt("", ADDRESS_SPACE_WORDS - 1))
    /\ calls = 25 /\ ret = None /\ au.acc = W(0, ADDRESS_SPACE_WORDS - 1)

(***************************************************************************)
(* C14. The sources LDC -1; HLT and LDC -1; JMN skip; LDC 0; skip: HLT     *)
(* assemble successfully, and the loaded programs halt with                *)
(* ACC = 0xFFFFFFFF.                                                       *)
(***************************************************************************)
C14_NegativeConstant ==
    (source \in {Some(SourceNegative), Some(SourceJmn("-"))})
        => /\ object_code # None => Unwrap(object_code).kind = "Ok"
           /\ (raw_code # None /\ ~cu.status.run)
                => au.acc = W(15, ADDRESS_SPACE_WORDS - 1)

(***************************************************************************)
(* C15. A cycle executing RAR n ends with ACC = ACC before, rotated right  *)
(* by n mod 32 bits.  The program LDC 1; NOT; RAR 1; HLT has               *)
(* ACC = 0xFFFFFFFE after the NOT cycle and ACC = 0x7FFFFFFF after the RAR *)
(* cycle.                                                                  *)
(***************************************************************************)
\* x rotated right by r bits: bit i of the result is bit (i + r) mod 32 of x.
RotatedRight(x, r) ==
    WordFromBits([i \in WordBits |-> WordBit(x, (i + r) % WORD_BITS)])

ExampleRar ==
    <<Ins("LoadConstant", 1), word_from_instruction(<<"Not">>),
      Ins("RotateRight", 1), HaltWord>>

C15_RotateRight ==
    /\ Executed("RotateRight")
         => au.acc = RotatedRight(StartAcc, FetchedInstruction[2].lo % WORD_BITS)
    /\ (raw_code = Some(ExampleRar) /\ calls = 24)
         => au.acc = W(15, ADDRESS_SPACE_WORDS - 2)
    /\ (raw_code = Some(ExampleRar) /\ calls = 36)
         => au.acc = W(7, ADDRESS_SPACE_WORDS - 1)

(***************************************************************************)
(* C16. ALU latency and snapshot.  A call of a running machine that        *)
(* signals the ALU (microcycle k) leaves a job holding the operation, X    *)
(* and Y as they are after that call's bus transfer, and Z unchanged; the  *)
(* next call (k + 1) leaves the job's operands and Z unchanged; the call   *)
(* after it (k + 2) sets Z from the job's operands alone, before its bus   *)
(* transfer, which therefore copies the new Z; and Z changes in no other   *)
(* call.  The operation's value is the one arithmetic::Unit::finalize_work *)
(* computes (for RAR see C15).                                             *)
(***************************************************************************)
\* The step is a call that found the machine running and returned.
RunningCall == cu.status.run /\ calls' = calls + 1 /\ mima'.panic = "none"

SameMemory(m1, m2, but) ==
    \A i \in ((DOMAIN m1) \cup (DOMAIN m2)) \ but : mem_get(m1, i) = mem_get(m2, i)

\* The call's bus transfer writes SIR.
BusWritesSir(desc) ==
    desc.bus_xfer # None /\ "SIR" \in Unwrap(desc.bus_xfer).destinations

InDeviceRange(word) ==
    word.hi = 0 /\ word.lo >= 3 * 2^26 /\ word.lo < 2^28

C18_DeviceStub ==
    /\ (Executed("LoadValue") /\ InDeviceRange(FetchedInstruction[2]))
         => au.acc = Word(42)
    /\ (Alive /\ cu.microcycle = 6 /\ InDeviceRange(StartIar)) => cu.ir = Word(42)
    /\ (Executed("StoreValue") /\ InDeviceRange(FetchedInstruction[2]))
         => SameMemory(StartMemory, mu.linear_memory, {})

\* LDC 3; LDV 0x0FFFFFFF has run: ACC has changed from 3 to 42.
C18_Witness ==
    /\ Executed("LoadValue") /\ FetchedInstruction[2] = Word(LastAddr)
    /\ StartAcc = Word(3) /\ au.acc = Word(42)

(***************************************************************************)
(* C19. An instruction whose address payload is PLACEHOLDER_ADDR never     *)
(* completes normally when it is executed and reads from or writes to that *)
(* address: no cycle of LDV or STV with that payload comes to its end.     *)
(***************************************************************************)
C19_PlaceholderFaults ==
    ~(/\ CycleDone
      /\ FetchedInstruction[1] \in {"LoadValue", "StoreValue"}
      /\ FetchedInstruction[2] = PLACEHOLDER_ADDR)

(***************************************************************************)
(* C20. load_code fix-up.  Right after load_code, for every entry of the   *)
(* symbol table the memory word at its instruction_address has the upper   *)
(* 4 bits of the raw code word (the opcode) and the lower 28 bits of the   *)
(* resolved device address, 0x0FFFFFFF; every other word of the image is   *)
(* the raw code word.                                                      *)
(***************************************************************************)
C20_LoadCodeFixup ==
    (object_code # None /\ raw_code # None /\ calls = 0)
        => LET code == Unwrap(object_code)
               named == {code.symbol_table[i].instruction_address.lo :
                            i \in DOMAIN code.symbol_table}
           IN  /\ \A a \in named :
                     /\ mem_get(mu.linear_memory, a).hi = code.raw_code[a + 1].hi
                     /\ mem_get(mu.linear_memory, a).lo = ADDRESS_SPACE_WORDS - 1
               /\ \A a \in (0..(Len(code.raw_code) - 1)) \ named :
                     mem_get(mu.linear_memory, a) = code.raw_code[a + 1]


(***************************************************************************)
(* Shorthands for the properties of the conversions.                       *)
(***************************************************************************)
\* The input is of the given kind and n conversions have been applied.
Given(kind, n) ==
    input # None /\ Unwrap(input)[1] = kind /\ Len(output) = n

InputValue == Unwrap(input)[2]

\* The encoding of NOP, 0xFF000000.
NopWord == W(15, 15 * 2^24)

RECURSIVE DecimalOfNat(_)
\* The decimal digits of a natural number below 2^31, most significant first.
DecimalOfNat(n) ==
    IF n < 10 THEN <<n>> ELSE Append(DecimalOfNat(n \div 10), n % 10)

\* The decimal digits of the number a word denotes as an unsigned integer
\* (2^28 = 10 * 26843545 + 6).
DecimalOfWord(w) ==
    LET q == w.hi * 26843545 + (w.hi * 6 + w.lo) \div 10
        r == (w.hi * 6 + w.lo) % 10
    IN  IF q = 0 THEN <<r>> ELSE Append(DecimalOfNat(q), r)

\* The decimal text of the integer n = -magnitude (negative) or magnitude.
DecimalText(negative, magnitude) ==
    [sign |-> IF negative THEN "-" ELSE "", digits |-> DecimalOfWord(magnitude)]

\* The two's-complement signed interpretation of w is the integer n, given
\* as above: w - 2^32 when bit 31 is set, w otherwise.
SignedIs(w, negative, magnitude) ==
    IF w.hi >= 8
    THEN negative /\ magnitude # Word(0) /\ WordWrappingAdd(w, magnitude) = Word(0)
    ELSE ~negative /\ w = magnitude

\* Magnitudes of the integers whose texts are lexed: 0 .. 2^31.
SampleMagnitudes ==
    {Word(0), Word(7), Word(42), Word(LoMod - 1), W(1, 0), W(7, LoMod - 1), W(8, 0)}

\* The integers n of the range [-2^31, 2^31] among them, as <<negative, magnitude>>.
SampleIntegers ==
    {<<FALSE, m>> : m \in SampleMagnitudes}
    \cup {<<TRUE, m>> : m \in SampleMagnitudes \ {Word(0)}}

(***************************************************************************)
(* C21  Codec round-trip: for every Instruction whose payload fits its     *)
(* format (28 bits for the ten basic instructions, 24 bits for RAR),       *)
(* encoding succeeds and decoding the encoded word yields the same         *)
(* instruction with the same payload.                                      *)
(***************************************************************************)
C21_CodecRoundTrip ==
    (input # None /\ Unwrap(input)[1] = "Instruction"
        /\ word_from_instruction_fits(InputValue))
    => /\ Len(output) >= 1 => output[1][1] = "Word"
       /\ Len(output) >= 2 => output[2] = <<"Instruction", InputValue>>

C21_Witness ==
    /\ Given("Instruction", 2)
    /\ InputValue = <<"RotateRight", Word(2^24 - 1)>>
    /\ output[1] = <<"Word", W(15, 3 * 2^24 - 1)>>
    /\ output[2] = <<"Instruction", InputValue>>

(***************************************************************************)
(* C22  Word round-trip, as the claim states it: for every 32-bit word w,  *)
(* encode(decode(w)) equals w, except when w has opcode 0xF with a         *)
(* sub-opcode not in {0, 1, 2, F}, in which case the result is the NOP     *)
(* encoding.                                                               *)
(***************************************************************************)
C22_WordRoundTrip ==
    Given("Word", 2)
    => LET w == InputValue
           sub == w.lo \div 2^24
       IN  IF w.hi = 15 /\ sub \notin {0, 1, 2, 15}
           THEN output[2] = <<"Word", NopWord>>
           ELSE output[2] = <<"Word", w>>

(***************************************************************************)
(* C22, amended: encode(decode(w)) equals w when w has an opcode 0x0..0x9, *)
(* or opcode 0xF with sub-opcode 2, or is one of 0xF0000000, 0xF1000000    *)
(* and 0xFF000000.  Of any other word the payload bits are dropped: opcode *)
(* 0xF with sub-opcode 0 gives 0xF0000000, with sub-opcode 1 gives         *)
(* 0xF1000000, and every other word (opcode 0xA..0xE, or 0xF with another  *)
(* sub-opcode) gives the NOP encoding 0xFF000000.                          *)
(***************************************************************************)
C22_WordRoundTripAmended ==
    Given("Word", 2)
    => LET w == InputValue
           sub == w.lo \div 2^24
       IN  output[2] =
              <<"Word", IF w.hi <= 9 \/ (w.hi = 15 /\ sub = 2) THEN w
                        ELSE IF w.hi = 15 /\ sub = 0 THEN W(15, 0)
                        ELSE IF w.hi = 15 /\ sub = 1 THEN W(15, 2^24)
                        ELSE NopWord>>

C22_Witness ==
    /\ Given("Word", 2)
    /\ InputValue = W(10, 1)
    /\ output[1] = <<"Instruction", <<"NoOperation">>>>
    /\ output[2] = <<"Word", NopWord>>

(***************************************************************************)
(* C23  Numeric literal, as the claim states it: for every integer n in    *)
(* [-2^31, 2^31], lexing the decimal text of n (with a leading '-' for     *)
(* negative n) succeeds and yields a word whose two's-complement signed    *)
(* interpretation equals n.                                                *)
(***************************************************************************)
C23_NumericLiteral ==
    \A n \in SampleIntegers :
        (Given("Text", 1) /\ InputValue = DecimalText(n[1], n[2]))
        => /\ output[1][1] = "WordToken" /\ output[1][2] # None
           /\ SignedIs(Unwrap(output[1][2]), n[1], n[2])

(***************************************************************************)
(* C23, amended: the same for every integer n in [-2^31, 2^31 - 1]; the    *)
(* text of 2^31 is lexed too, and yields the word 0x80000000, whose signed *)
(* interpretation is -2^31.                                                *)
(***************************************************************************)
C23_NumericLiteralAmended ==
    \A n \in SampleIntegers :
        (Given("Text", 1) /\ InputValue = DecimalText(n[1], n[2]))
        => /\ output[1][1] = "WordToken" /\ output[1][2] # None
           /\ IF n = <<FALSE, W(8, 0)>>
              THEN Unwrap(output[1][2]) = W(8, 0)
              ELSE SignedIs(Unwrap(output[1][2]), n[1], n[2])

C23_Witness ==
    /\ Given("Text", 1)
    /\ InputValue = DecimalText(TRUE, W(8, 0))
    /\ InputValue.digits = <<2, 1, 4, 7, 4, 8, 3, 6, 4, 8>>
    /\ output[1] = <<"WordToken", Some(W(8, 0))>>


(***************************************************************************)
(* Shorthands for the properties of the assembler's passes.                *)
(***************************************************************************)
\* What pass 1 returned, and what pass 2 returned.
Pass1 == output[1][2]
Pass2 == output[2][2]

\* The number of words a statement asks for, as a word: its TIMES operand
\* may be any 32-bit number.
WordsAsked(stmt) ==
    IF stmt.content = None THEN Word(0)
    ELSE LET c == Unwrap(stmt.content)
         IN  IF c[1] = "Data" /\ c[3] # None THEN Unwrap(c[3]) ELSE Word(1)

RECURSIVE FirstOverflow(_, _, _)
\* The index of the first statement, from statement i on, at which the
\* running word count (count before statement i) exceeds
\* LINEAR_ADDRESS_SPACE_WORDS; 0 when there is none.
FirstOverflow(program, i, count) ==
    IF i > Len(program) THEN 0
    ELSE IF WordLess(Word(LINEAR_ADDRESS_SPACE_WORDS - count), WordsAsked(program[i]))
    THEN i
    ELSE FirstOverflow(program, i + 1, count + WordsAsked(program[i]).lo)

RECURSIVE WordsBefore(_, _)
\* The words asked for by the statements before statement i, when they fit
\* the linear memory.
WordsBefore(program, i) ==
    IF i <= 1 THEN 0
    ELSE WordsBefore(program, i - 1) + WordsAsked(program[i - 1]).lo

(***************************************************************************)
(* C24  Assembly size bound: pass 1 accepts a program only if its words    *)
(* fit LINEAR_ADDRESS_SPACE_WORDS (a program of exactly that many words    *)
(* fits), the raw_code that pass 2 emits has exactly the number of words   *)
(* pass 1 counted, and when the running word count exceeds the bound at    *)
(* some statement, the assembly fails: with OverflowError carrying the     *)
(* line of the first such statement, unless a label definition on that or  *)
(* an earlier statement failed first.                                      *)
(***************************************************************************)
C24_SizeBound ==
    (input # None /\ Unwrap(input)[1] = "Program" /\ Len(output) >= 1)
    => LET program == InputValue
           k == FirstOverflow(program, 1, 0)
       IN  /\ Pass1.kind = "Ok"
                => /\ k = 0
                   /\ Pass1.number_of_words = WordsBefore(program, Len(program) + 1)
                   /\ Pass1.number_of_words <= LINEAR_ADDRESS_SPACE_WORDS
           /\ (Len(output) = 2 /\ Pass2.kind = "Ok")
                => Len(Pass2.raw_code) = Pass1.number_of_words
           /\ (Pass1.kind = "Err" /\ Pass1.error[1] = "OverflowError")
                => k # 0 /\ Pass1.error[2] = program[k].line_number
           /\ k # 0
                => /\ Pass1.kind = "Err"
                   /\ \/ Pass1.error = <<"OverflowError", program[k].line_number>>
                      \/ /\ Pass1.error[1] = "LabelError"
                         /\ Pass1.error[2] <= program[k].line_number
           /\ (k = 0 /\ \A i \in DOMAIN program : program[i].label_defs = << >>)
                => Pass1.kind = "Ok"

C24_Witness ==
    /\ Given("Program", 1)
    /\ InputValue = parse(<<Hlt, EmptyLine, Full, Hlt>>).program
    /\ FirstOverflow(InputValue, 1, 0) = 2
    /\ Pass1 = [kind |-> "Err", error |-> <<"OverflowError", 2>>]


RECURSIVE DefsFrom(_, _)
\* The label definitions of the program from statement i on, in lexical
\* order, each as <<index of its statement, prefix, name>>.
DefsFrom(program, i) ==
    IF i > Len(program) THEN << >>
    ELSE [j \in DOMAIN program[i].label_defs |->
             <<i, program[i].label_defs[j][1], program[i].label_defs[j][2]>>]
         \o DefsFrom(program, i + 1)

\* What is wrong with definition d of the sequence defs, if anything: the
\* three checks in the order the specification lists them.
DefFault(program, defs, d) ==
    IF defs[d][2] # None /\ Unwrap(defs[d][2]) # "this"
    THEN <<"BadDefPrefix", Unwrap(defs[d][2])>>
    ELSE IF \E e \in 1..(d - 1) : defs[e][3] = defs[d][3]
    THEN <<"Duplicate", defs[d][3]>>
    ELSE IF WordsBefore(program, defs[d][1]) >= LINEAR_ADDRESS_SPACE_WORDS
    THEN <<"BehindFullMemory", defs[d][3]>>
    ELSE <<"none">>

\* The first definition with a fault on a statement that pass 1 gets to
\* (no statement before it overflows); 0 when there is none.
FirstFault(program) ==
    LET defs == DefsFrom(program, 1)
        k == FirstOverflow(program, 1, 0)
        faulty == {d \in DOMAIN defs :
                      /\ k = 0 \/ defs[d][1] <= k
                      /\ DefFault(program, defs, d) # <<"none">>}
    IN  IF faulty = {} THEN 0 ELSE CHOOSE d \in faulty : \A e \in faulty : d <= e

(***************************************************************************)
(* C25  When pass 1 succeeds, every label name of the program is defined   *)
(* exactly once, and it is bound to the line of its definition and to the  *)
(* number of words before its statement, which is strictly less than       *)
(* LINEAR_ADDRESS_SPACE_WORDS.  Pass 1 fails at the first definition that  *)
(* has a prefix other than 'this' (BadDefPrefix), or else repeats a name   *)
(* defined before, with or without the 'this' prefix (Duplicate), or else  *)
(* stands where the memory is full (BehindFullMemory), with the line of    *)
(* its statement.                                                          *)
(***************************************************************************)
C25_LocalLabels ==
    (input # None /\ Unwrap(input)[1] = "Program" /\ Len(output) >= 1)
    => LET program == InputValue
           defs == DefsFrom(program, 1)
           f == FirstFault(program)
       IN  /\ Pass1.kind = "Ok"
                => /\ f = 0
                   /\ \A d, e \in DOMAIN defs : defs[d][3] = defs[e][3] => d = e
                   /\ DOMAIN Pass1.label_map = {defs[d][3] : d \in DOMAIN defs}
                   /\ \A d \in DOMAIN defs :
                         LET bound == Pass1.label_map[defs[d][3]]
                         IN  /\ bound[1] = program[defs[d][1]].line_number
                             /\ bound[2] = Word(WordsBefore(program, defs[d][1]))
                             /\ WordLess(bound[2], Word(LINEAR_ADDRESS_SPACE_WORDS))
           /\ f # 0
                => Pass1 = LabelError(program[defs[f][1]].line_number,
                                      DefFault(program, defs, f)[1],
                                      DefFault(program, defs, f)[2])
           /\ (Pass1.kind = "Err" /\ Pass1.error[1] = "LabelError") => f # 0

C25_Witness ==
    /\ Given("Program", 1)
    /\ InputValue = parse(<<Labelled("a", Instr("Halt")), EmptyLine,
                            LabelOnly(Some("this"), "a")>>).program
    /\ Pass1 = LabelError(2, "Duplicate", "a")


(***************************************************************************)
(* Shorthands for the properties of a whole assembly.                      *)
(***************************************************************************)
\* The assembly has returned Ok.
Assembled == object_code # None /\ Unwrap(object_code).kind = "Ok"
Object == Unwrap(object_code)

\* The statements of the assembled text.
Program == parse(Unwrap(source)).program

\* The statements that are instructions with a label as operand, and
\* those among them whose label carries a prefix.
LabelRefs(program) ==
    {i \in DOMAIN program :
        /\ program[i].content # None
        /\ Unwrap(program[i].content)[1] = "Instruction"
        /\ Len(Unwrap(program[i].content)) = 3
        /\ Unwrap(program[i].content)[2] \notin WordArgTags
        /\ Unwrap(program[i].content)[3][1] = "Label"}
Operand(program, i) == Unwrap(program[i].content)[3]
PrefixedRefs(program) ==
    {i \in LabelRefs(program) : Operand(program, i)[2] # None}

(***************************************************************************)
(* C26  Symbol-table completeness: in every successful assembly, each      *)
(* operand reference that carries a prefix has exactly one symbol-table    *)
(* entry, whose instruction_address is the index in raw_code of the        *)
(* instruction with the reference and whose label is the reference; the    *)
(* word emitted there is the instruction with the placeholder address as   *)
(* payload; the entries stand in lexical order; and there is no other      *)
(* entry (none for an unprefixed reference or a numeric operand).          *)
(***************************************************************************)
C26_SymbolTable ==
    Assembled
    => LET table == Object.symbol_table
           refs == PrefixedRefs(Program)
           EntriesOf(i) ==
               {t \in DOMAIN table :
                   table[t].instruction_address = Word(WordsBefore(Program, i))}
       IN  /\ \A i \in refs :
                 /\ Cardinality(EntriesOf(i)) = 1
                 /\ \A t \in EntriesOf(i) :
                       table[t].label = [prefix |-> Unwrap(Operand(Program, i)[2]),
                                         name |-> Operand(Program, i)[3]]
                 /\ WordsBefore(Program, i) < Len(Object.raw_code)
                 /\ instruction_from_word(Object.raw_code[WordsBefore(Program, i) + 1])
                       = <<Unwrap(Program[i].content)[2], PLACEHOLDER_ADDR>>
           /\ \A t, u \in DOMAIN table :
                 t < u => WordLess(table[t].instruction_address,
                                   table[u].instruction_address)
           /\ \A t \in DOMAIN table : \E i \in refs : t \in EntriesOf(i)

C26_Witness ==
    /\ Assembled
    /\ Unwrap(source) = SourceReferences
    /\ Len(Object.symbol_table) = 3
    /\ Object.symbol_table[2] =
          [instruction_address |-> Word(6), label |-> [prefix |-> "this", name |-> "y"]]
    /\ Object.raw_code[7] = W(5, LoMod - 1)


\* The names the program defines as labels, and those that some
\* instruction refers to as an unprefixed label operand.
DefinedLabels(program) ==
    {DefsFrom(program, 1)[d][3] : d \in DOMAIN DefsFrom(program, 1)}
LocallyReferenced(program) ==
    {Operand(program, i)[3] : i \in LabelRefs(program) \ PrefixedRefs(program)}

(***************************************************************************)
(* C27  Unused-label diagnostics: a successful assembly reports exactly    *)
(* one UnusedLocalLabel warning for every locally defined label that no    *)
(* instruction references as a local (unprefixed) label operand, and no    *)
(* warning for a label that is so referenced, and nothing else; 'foo: HLT' *)
(* yields exactly one warning, for foo.                                    *)
(***************************************************************************)
C27_UnusedLabels ==
    Assembled
    => LET diagnostics == Object.diagnostics
           WarningsFor(name) ==
               {d \in DOMAIN diagnostics :
                   diagnostics[d][2] = "UnusedLocalLabel" /\ diagnostics[d][3] = name}
       IN  /\ \A name \in DefinedLabels(Program) \ LocallyReferenced(Program) :
                 Cardinality(WarningsFor(name)) = 1
           /\ \A name \in LocallyReferenced(Program) : WarningsFor(name) = {}
           /\ \A d \in DOMAIN diagnostics :
                 /\ diagnostics[d][2] = "UnusedLocalLabel"
                 /\ diagnostics[d][3] \in DefinedLabels(Program)
           /\ Unwrap(source) = SourceFoo
                 => diagnostics = <<<<0, "UnusedLocalLabel", "foo">>>>

(***************************************************************************)
(* C28  Diagnostics order: when several local labels are unused, the       *)
(* UnusedLocalLabel warnings are returned sorted by the line number of the *)
(* label definitions, and every assembly of the same source returns the    *)
(* warnings in the same order.                                             *)
(***************************************************************************)
C28_DiagnosticsOrder ==
    Assembled
    => /\ \A d, e \in DOMAIN Object.diagnostics :
             d < e => Object.diagnostics[d][1] <= Object.diagnostics[e][1]
       /\ \A other \in assemble(Unwrap(source)) :
             other.diagnostics = Object.diagnostics


\* The aborts that a descriptor breaking the bus constraints leads to.
BusPanics ==
    {"Bus source registers must contain exactly one register.",
     "Bus destination registers must not be empty.",
     "Invalid bus source registers", "Invalid bus destination registers",
     "Invalid source bitmask", "Unexpected bus source", "Unexpected bus destination"}

(***************************************************************************)
(* C29  The descriptor that the fetch table (microcycles 1..5) or the      *)
(* execute table (microcycles 6..12, any of the 14 instructions) produces  *)
(* for the next microcycle of a running machine is built without a failed  *)
(* assertion, and its bus transfer, if it has one, has exactly one source  *)
(* from {ACC, ONE, Z, IAR, IR, SIR}, a non-empty destination set within    *)
(* {ACC, X, Y, IAR, IR, SAR, SIR}, the full mask for a source other than   *)
(* IR and a payload mask for IR (24 bits for RAR, 28 bits otherwise).  No  *)
(* call aborts on an assertion of Xfer::new or on an 'Unexpected bus       *)
(* source/destination' panic.                                              *)
(***************************************************************************)
C29_BusConstraints ==
    /\ mima.panic \notin BusPanics
    /\ (Alive /\ is_running(cu))
       => LET d == microcycle_descriptor(mima)
          IN  /\ d.panic = "none"
              /\ d.bus_xfer # None
                 => LET xfer == Unwrap(d.bus_xfer)
                    IN  /\ Cardinality(xfer.source) = 1
                        /\ xfer.source \subseteq {"ACC", "ONE", "Z", "IAR", "IR", "SIR"}
                        /\ xfer.destinations # {}
                        /\ xfer.destinations
                              \subseteq {"ACC", "X", "Y", "IAR", "IR", "SAR", "SIR"}
                        /\ xfer.source_bitmask =
                              IF xfer.source # {"IR"} THEN W(15, LoMod - 1)
                              ELSE IF cu.instruction = None THEN W(15, LoMod - 1)
                              ELSE IF Unwrap(cu.instruction)[1] = "RotateRight"
                              THEN W(0, 2^24 - 1)
                              ELSE W(0, LoMod - 1)

C29_Witness ==
    /\ Alive /\ is_running(cu)
    /\ cu.microcycle = 7
    /\ cu.instruction # None /\ Unwrap(cu.instruction)[1] = "RotateRight"
    /\ Unwrap(microcycle_descriptor(mima).bus_xfer).source = {"IR"}
    /\ Unwrap(microcycle_descriptor(mima).bus_xfer).source_bitmask = W(0, 2^24 - 1)
    /\ calls > 0


\* No word of the loaded program has the opcode of STV (5), JMP (7) or
\* JMN (8); none is the word HLT or another word that decodes to HLT.
NoJumpNoStore ==
    \A i \in DOMAIN Unwrap(raw_code) : Unwrap(raw_code)[i].hi \notin {5, 7, 8}
NoHalt ==
    \A i \in DOMAIN Unwrap(raw_code) :
        ~(Unwrap(raw_code)[i].hi = 15 /\ Unwrap(raw_code)[i].lo < 2^24)

C31_OneIsOne == mima.arithmetic_unit.one = Word(1)

C31_Witness ==
    /\ Alive
    /\ calls = 24
    /\ mima.arithmetic_unit.one = Word(1)
    /\ mima.arithmetic_unit.y = Word(1)
    /\ cu.iar = Word(2)
    /\ mima.arithmetic_unit.acc # Word(0)


\* The 14 variants of enum Instruction.
InstructionTags ==
    {"Add", "And", "Or", "Xor", "LoadValue", "StoreValue", "LoadConstant", "Jump",
     "JumpIfNegative", "Equals", "Halt", "Not", "RotateRight", "NoOperation"}

(***************************************************************************)
(* C32  Decoding is total: every 32-bit word decodes to one of the 14      *)
(* instructions without aborting, and every word with upper nibble 0xF and *)
(* a sub-opcode other than 0 (HLT), 1 (NOT) or 2 (RAR) decodes to NOP.     *)
(***************************************************************************)
C32_DecodeTotal ==
    (input # None /\ Unwrap(input)[1] = "Word" /\ Len(output) >= 1)
    => /\ output[1][1] = "Instruction"
       /\ output[1][2][1] \in InstructionTags
       /\ (InputValue.hi = 15 /\ InputValue.lo \div 2^24 \notin {0, 1, 2})
             => output[1][2] = <<"NoOperation">>

C32_Witness ==
    /\ Given("Word", 1)
    /\ InputValue = W(15, 3 * 2^24 + 1)
    /\ output[1] = <<"Instruction", <<"NoOperation">>>>


\* The word in register r of machine m.
RegisterOf(m, r) ==
    CASE r = "ACC" -> m.arithmetic_unit.acc
      [] r = "ONE" -> m.arithmetic_unit.one
      [] r = "X"   -> m.arithmetic_unit.x
      [] r = "Y"   -> m.arithmetic_unit.y
      [] r = "Z"   -> m.arithmetic_unit.z
      [] r = "IAR" -> m.control_unit.iar
      [] r = "IR"  -> m.control_unit.ir
      [] r = "SAR" -> m.memory_unit.sar
      [] r = "SIR" -> m.memory_unit.sir

AllRegisters == {"ACC", "ONE", "X", "Y", "Z", "IAR", "IR", "SAR", "SIR"}

(***************************************************************************)
(* C33  A performed bus transfer writes the same value, (source value      *)
(* before the transfer AND source mask), to every destination register,    *)
(* also when the source register is itself among the destinations, and     *)
(* leaves every register outside the destination set unchanged; a skipped  *)
(* accumulator-dependent transfer (bit 31 of ACC clear) changes no         *)
(* register.                                                               *)
(***************************************************************************)
C33_BusTransferFrame ==
    Given("Transfer", 1)
    => LET before == InputValue.machine
           xfer == InputValue.xfer
           after == output[1][2]
           source_reg == CHOOSE r \in xfer.source : TRUE
           value == WordAnd(RegisterOf(before, source_reg), xfer.source_bitmask)
           skipped == xfer.is_acc_dependent /\ before.arithmetic_unit.acc.hi < 8
       IN  /\ output[1][1] = "Machine"
           /\ after.panic = "none"
           /\ skipped => after = before
           /\ ~skipped
                => \A r \in AllRegisters :
                      RegisterOf(after, r) =
                         IF r \in xfer.destinations THEN value
                         ELSE RegisterOf(before, r)

C33_Witness ==
    /\ Given("Transfer", 1)
    /\ InputValue.xfer.source = {"IR"}
    /\ InputValue.xfer.destinations = {"IAR", "IR"}
    /\ InputValue.xfer.source_bitmask = W(0, 2^24 - 1)
    /\ ~InputValue.xfer.is_acc_dependent
    /\ output[1][2].control_unit.ir = Word(15)
    /\ output[1][2].control_unit.iar = Word(15)
    /\ output[1][2].memory_unit.sar = Word(16)


\* The summary record_microcycle returns for the call now being made.
Recorded == record_microcycle(mima).summary

\* Does the call now being made carry out a bus transfer: its descriptor has
\* one and perform_bus_xfer, reached after the units polled, goes past its
\* accumulator test?
CarriedOut ==
    LET polled == poll_units(mima)
        microcycle_desc == microcycle_descriptor(polled)
    IN  /\ microcycle_desc.bus_xfer # None
        /\ bus_xfer_taken(polled, Unwrap(microcycle_desc.bus_xfer))

(***************************************************************************)
(* C34  For every microcycle summary recorded by record_microcycle,        *)
(* is_bus_active() is true if and only if perform_microcycle carried out   *)
(* a bus transfer in that microcycle: the descriptor has a transfer and it *)
(* is either not accumulator-dependent or bit 31 of ACC was set when the   *)
(* microcycle started.                                                     *)
(***************************************************************************)
C34_BusActive ==
    [][(calls' = calls + 1 /\ Recorded # None)
          => /\ record_microcycle(mima).machine = mima'
             /\ Unwrap(Recorded).descriptor = Unwrap(ret')
             /\ is_bus_active(Unwrap(Recorded)) = CarriedOut
             /\ is_bus_active(Unwrap(Recorded))
                  = (/\ Unwrap(ret').bus_xfer # None
                     /\ \/ ~Unwrap(Unwrap(ret').bus_xfer).is_acc_dependent
                        \/ mima.arithmetic_unit.acc.hi >= 8)]_vars

\* A conditional jump whose transfer was skipped: the descriptor has a
\* transfer, the accumulator is not negative, the jump was not taken.
C34_Witness ==
    /\ Alive
    /\ ret # None
    /\ Unwrap(ret).bus_xfer # None
    /\ Unwrap(Unwrap(ret).bus_xfer).is_acc_dependent
    /\ au.acc.hi < 8
    /\ au.acc # Word(0)


\* The number of words pass 2 emits for the statements before statement i.
EmittedBefore(program, label_map, i) ==
    Len(assemble_from(SubSeq(program, 1, i - 1), 1, label_map, << >>, << >>).raw_code)

\* The statement that defines the label name.
DefinedAt(program, name) ==
    CHOOSE i \in DOMAIN program :
        \E j \in DOMAIN program[i].label_defs : program[i].label_defs[j][2] = name

\* The instructions of the program that refer to a label without a prefix.
LocalRefs(program) == LabelRefs(program) \ PrefixedRefs(program)

(***************************************************************************)
(* C35  In every successful assembly, the address to which a local label   *)
(* reference resolves equals the index in raw_code of the first word       *)
(* emitted at or after the label's definition (the raw_code length if      *)
(* nothing follows), whether the reference stands before or after the      *)
(* definition; and the word count of pass 1 equals the number of words     *)
(* pass 2 emits.                                                           *)
(***************************************************************************)
C35_LabelAddresses ==
    (Given("Program", 2) /\ Pass2.kind = "Ok")
    => LET program == InputValue
           label_map == Pass1.label_map
       IN  /\ Len(Pass2.raw_code) = Pass1.number_of_words
           /\ \A i \in LocalRefs(program) :
                 LET at == EmittedBefore(program, label_map, i) + 1
                     target == EmittedBefore(program, label_map,
                                             DefinedAt(program, Operand(program, i)[3]))
                 IN  /\ at <= Len(Pass2.raw_code)
                     /\ target <= Len(Pass2.raw_code)
                     /\ instruction_from_word(Pass2.raw_code[at])
                          = <<Unwrap(program[i].content)[2], Word(target)>>

\* A reference before the definition and one after it, the first to a label
\* that stands alone on its line behind three data words.
C35_Witness ==
    /\ Given("Program", 2)
    /\ Pass2.kind = "Ok"
    /\ Len(Pass2.raw_code) = 9
    /\ Pass2.raw_code[1] = word_from_instruction(<<"Jump", Word(4)>>)
    /\ Pass2.raw_code[9] = word_from_instruction(<<"Jump", Word(6)>>)
    /\ \E i, k \in LocalRefs(InputValue) :
          /\ i < DefinedAt(InputValue, Operand(InputValue, i)[3])
          /\ k > DefinedAt(InputValue, Operand(InputValue, k)[3])

\* A referenced label with nothing behind it resolves to the raw_code length.
C35_TrailingLabel ==
    /\ Given("Program", 2)
    /\ Pass2.kind = "Ok"
    /\ Len(Pass2.raw_code) = 2
    /\ Pass2.raw_code[1] = word_from_instruction(<<"Jump", Word(2)>>)


\* The lines of a text that fail to parse.
BadLines(text) ==
    {i \in DOMAIN text :
        \E literal \in content_literals(text[i].content) : word_token(literal) = None}

NotResolved(result) ==
    /\ result.kind = "Err"
    /\ result.error[1] = "LabelError"
    /\ result.error[3] = "NotResolved"

(***************************************************************************)
(* C36  Assembly errors are reported in phase order.  If a line fails to   *)
(* parse, the result is the ParserError of the first such line, whatever   *)
(* is wrong with the labels elsewhere.  Otherwise, if pass 1 finds a       *)
(* BadDefPrefix, Duplicate, BehindFullMemory or Overflow condition, the    *)
(* result is the error of the first offending statement in lexical order   *)
(* (one definition is checked for its prefix, then as a duplicate, then    *)
(* against the full memory).  A NotResolved error is returned only when    *)
(* pass 1 succeeded, also when the unresolved reference stands on an       *)
(* earlier line than the other fault.                                      *)
(***************************************************************************)
C36_PhaseOrder ==
    object_code # None
    => LET text == Unwrap(source)
           bad == BadLines(text)
       IN  /\ bad # {}
                => Object = [kind |-> "Err",
                             error |-> <<"ParserError",
                                         (CHOOSE i \in bad : \A j \in bad : i <= j) - 1>>]
           /\ bad = {}
                => LET defs == DefsFrom(Program, 1)
                       f == FirstFault(Program)
                       k == FirstOverflow(Program, 1, 0)
                   IN  /\ f # 0
                            => Object = LabelError(Program[defs[f][1]].line_number,
                                                   DefFault(Program, defs, f)[1],
                                                   DefFault(Program, defs, f)[2])
                       /\ (f = 0 /\ k # 0)
                            => Object = [kind |-> "Err",
                                         error |-> <<"OverflowError",
                                                     Program[k].line_number>>]
                       /\ NotResolved(Object)
                            => /\ f = 0 /\ k = 0
                               /\ build_label_map(Program).kind = "Ok"

\* An unresolved reference on line 0 and a bad prefix on line 2: the bad
\* prefix is what the assembly returns.
C36_Witness ==
    /\ object_code # None
    /\ Unwrap(source) = <<Line(InstrLabel("Jump", "nowhere")), Hlt,
                          LabelOnly(Some("dev"), "x")>>
    /\ Object = LabelError(2, "BadDefPrefix", "dev")


(***************************************************************************)
(* C37  For every source text, assemble returns either Ok(object code,     *)
(* diagnostics) or an Err value; it never aborts, also not for a line the  *)
(* parser accepts whose operand literal does not fit the payload of the    *)
(* instruction (an address or LDC constant above 28 bits, a RAR amount     *)
(* above 24 bits, or a negative literal).                                  *)
(***************************************************************************)
C37_NeverAborts ==
    object_code # None => Object.kind \in {"Ok", "Err"}


\* The registers a descriptor writes over the bus.
DestinationsOf(microcycle_desc) ==
    IF microcycle_desc.bus_xfer = None THEN {}
    ELSE Unwrap(microcycle_desc.bus_xfer).destinations

(***************************************************************************)
(* C38  Throughout the execute phase (counter in 6..12) the latched        *)
(* instruction equals decode(IR): IR is written only in microcycle 5, and  *)
(* no execute-phase descriptor of any instruction has IR as a bus          *)
(* destination.                                                            *)
(***************************************************************************)
C38_LatchedInstruction ==
    /\ [](/\ cu.microcycle \in 6..12
              => cu.instruction = Some(instruction_from_word(cu.ir))
          /\ \A tag \in InstructionTags, microcycle \in 6..12 :
                "IR" \notin DestinationsOf(execute_descriptor(microcycle, <<tag, Word(0)>>)))
    /\ [][cu.ir' # cu.ir => (cu.microcycle = 5 /\ cu.microcycle' = 6)]_vars

\* In the last microcycle of a store, which has written ACC, SAR and SIR:
\* the instruction is still the decoded IR.
C38_Witness ==
    /\ Alive
    /\ cu.microcycle = 12
    /\ cu.ir # Word(0)
    /\ cu.instruction = Some(instruction_from_word(cu.ir))
    /\ cu.instruction[1][1] = "StoreValue"


\* The addresses the cycle that began in cycle_start may write: the address
\* of its instruction when that is an STV, none otherwise.
Writable ==
    IF FetchedInstruction[1] = "StoreValue" THEN {FetchedInstruction[2].lo} ELSE {}

(***************************************************************************)
(* C39  During execution linear memory changes only through STV: a cycle   *)
(* executing any other instruction leaves every word of linear memory      *)
(* unchanged, and a cycle executing STV a changes at most the single word  *)
(* at address a.                                                           *)
(***************************************************************************)
C39_MemoryFrame ==
    /\ [](CycleDone => SameMemory(StartMemory, mu.linear_memory, Writable))
    /\ [][(calls' = calls + 1 /\ mima'.memory_unit.linear_memory # mu.linear_memory)
             => /\ cu.instruction # None
                /\ cu.instruction[1][1] = "StoreValue"
                /\ SameMemory(mu.linear_memory, mima'.memory_unit.linear_memory,
                              {cu.instruction[1][2].lo})]_vars

\* A cycle that executed STV a and changed the word at a, and nothing else.
C39_Witness ==
    /\ Executed("StoreValue")
    /\ mem_get(mu.linear_memory, FetchedInstruction[2].lo)
         # mem_get(StartMemory, FetchedInstruction[2].lo)
    /\ mem_get(mu.linear_memory, FetchedInstruction[2].lo) = StartAcc
    /\ SameMemory(StartMemory, mu.linear_memory, {FetchedInstruction[2].lo})


\* The machine before the k-th load of the run, the image it loads and the
\* machine after it.
LoadBefore(k) == IF k = 1 THEN InputValue.machine ELSE output[k - 1][2].machine
LoadImage(k) == InputValue.pending[k]
LoadAfter(k) == output[k][2].machine

\* The addresses looked at: those of the images and some behind them.
LoadAddresses == 0..7

(***************************************************************************)
(* C40  load_raw_code with n words sets the linear memory addresses        *)
(* 0..n-1 to those words in order and leaves every address >= n, all       *)
(* registers, flags, the counter and the pending work unchanged; so        *)
(* loading a shorter program over a longer one keeps the tail of the old   *)
(* program in memory.                                                      *)
(***************************************************************************)
C40_LoadRawCode ==
    (input # None /\ Unwrap(input)[1] = "Images")
    => /\ \A k \in 1..Len(output) :
             LET before == LoadBefore(k)
                 after == LoadAfter(k)
                 image == LoadImage(k)
                 old == before.memory_unit.linear_memory
                 new == after.memory_unit.linear_memory
             IN  /\ \A i \in 0..(Len(image) - 1) : mem_get(new, i) = image[i + 1]
                 /\ \A i \in (LoadAddresses \cup DOMAIN old \cup DOMAIN new) :
                       i >= Len(image) => mem_get(new, i) = mem_get(old, i)
                 /\ [after EXCEPT !.memory_unit.linear_memory = old] = before
       /\ (Len(output) = 2 /\ Len(LoadImage(2)) < Len(LoadImage(1)))
             => \A i \in Len(LoadImage(2))..(Len(LoadImage(1)) - 1) :
                   mem_get(LoadAfter(2).memory_unit.linear_memory, i) = LoadImage(1)[i + 1]

\* Two words loaded over four, in a machine with a store pending: the third
\* and fourth word of the old image are still there, and so is the work.
C40_Witness ==
    /\ Given("Images", 2)
    /\ Len(LoadImage(1)) = 4 /\ Len(LoadImage(2)) = 2
    /\ InputValue.machine.memory_unit.work # None
    /\ Unwrap(InputValue.machine.memory_unit.work).access = "Write"
    /\ LoadAfter(2).memory_unit.work = InputValue.machine.memory_unit.work
    /\ mem_get(LoadAfter(2).memory_unit.linear_memory, 0) = Ins("StoreValue", 3)
    /\ mem_get(LoadAfter(2).memory_unit.linear_memory, 3) = Word(4)
    /\ LoadAfter(2).control_unit = InputValue.machine.control_unit

=============================================================================
